---- MODULE Spec2Model ----
(***************************************************************************)
(* A model of the town generator (src/src/main.rs): the identifier         *)
(* allocator, the hierarchical content generator, the connectivity graph   *)
(* builder and the DOT export/import codec.                                *)
(*                                                                         *)
(* Each routine has its own specification over the shared variables:       *)
(*   SpecGraph  generate_graph                                             *)
(*   SpecIds    IdTracker::get_new_id                                      *)
(*   SpecNames  generate_building_name, generate_npc_name and               *)
(*              generate_town_name over the word lists load_list returns   *)
(*   SpecWorld  generate_towns down to generate_containers: the ids, the   *)
(*              counts and the ownership tree (names are SpecNames' part;  *)
(*              the sex, race, container type and grid cell of an entity   *)
(*              are drawn independently of the tree and left out)          *)
(*   SpecDot    save_graph and load_dot with parse_edge_line and           *)
(*              JourneyInfo::from_label; text is a sequence of characters  *)
(*   SpecRuns   generate_world run twice, every draw taken from a       *)
(*              generator that is a function of the seed                   *)
(*   SpecImport import: load_dot, the population of the towns it names     *)
(*              and generate_graph_from_imported_towns                     *)
(* SpecIdsFair is SpecIds under fair draws.                                *)
(* Build profile: Rust traps integer overflow when overflow checks are on  *)
(* (debug profile) and wraps when they are off (release profile); the      *)
(* variable overflow_checks holds the profile of the build under study.    *)
(***************************************************************************)
EXTENDS Integers, Sequences, FiniteSets, TLC

VARIABLES
    settings,         \* AppConfig, the fields the routine under study reads
    overflow_checks,  \* TRUE: overflow panics; FALSE: overflow wraps
    pc,               \* position in the routine under study
    failure,          \* the panic message once pc = "panic", else "none"
    town_nodes,       \* generate_graph: Vec<NodeIndex>, the graph's vertices
    town_pairs,       \* generate_graph: Vec<(NodeIndex, NodeIndex, u32)>
    tie_order,        \* generate_graph: how sort_unstable left equal keys
    uf,               \* generate_graph: UnionFind {parent, rank}
    edges,            \* generate_graph: the graph's edges, in insertion order
    edges_added,      \* generate_graph: edges_added
    ids,              \* IdTracker.ids
    id,               \* get_new_id: the local id, the value drawn last
    issued,           \* the values get_new_id has returned, in order of return
    towns,            \* generate_towns: Vec<Town>, the finished towns
    town,             \* generate_towns: town_id and number_of_buildings of the running town
    buildings,        \* generate_buildings: Vec<Building>, the finished buildings
    building,         \* generate_buildings: the building under construction
    npcs,             \* generate_npcs' result, drained by generate_rooms
    rooms,            \* generate_rooms: Vec<Room>
    rooms_left,       \* generate_rooms: iterations left of the room loop
    word_files,       \* the input directory: file name -> [exists, lines]
    building_name,    \* generate_building_name's result
    npc_name,         \* generate_npc_name's result
    town_name,        \* generate_town_name's result
    graph,            \* save_graph: the Graph<Town, JourneyInfo> it is given
    dot_output,       \* the .dot file: save_graph's dot_output, read by load_dot
    file_content,     \* load_dot: the text read from the .dot file
    lines,            \* load_dot: the lines of file_content still to visit
    raw_graph,        \* load_dot: the Graph<TownRaw, JourneyInfo> it builds
    node_indices,     \* load_dot: HashMap from town name to NodeIndex
    generator,        \* StdRng: the words a seed yields, a function of seed and position
    seeds,            \* the seed of the first and of the second run of generate_world
    run,              \* which run of generate_world is under way: 1 or 2
    rng,              \* generate_world: rng, as {seed, words drawn so far}
    tracker_rng,      \* IdTracker.rng, as {seed, words drawn so far}
    world,            \* generate_world: World, the five id-keyed mappings
    results           \* what the runs of generate_world so far have returned

graphVars == <<town_nodes, town_pairs, tie_order, uf, edges, edges_added>>
idVars == <<ids, id, issued>>
worldVars == <<towns, town, buildings, building, npcs, rooms, rooms_left>>
nameVars == <<word_files, building_name, npc_name, town_name>>
dotVars == <<graph, dot_output, file_content, lines, raw_graph, node_indices>>
runVars == <<generator, seeds, run, rng, tracker_rng, world, results>>
vars ==
    <<settings, overflow_checks, pc, failure, graphVars, idVars, worldVars, nameVars, dotVars,
      runVars>>

(* What each routine leaves alone.                                         *)
notGraphVars == <<idVars, worldVars, nameVars, dotVars, runVars>>
notIdVars == <<graphVars, worldVars, nameVars, dotVars, runVars>>
notWorldVars == <<graphVars, id, issued, nameVars, dotVars, runVars>>
notNameVars ==
    <<graphVars, idVars, towns, town, buildings, npcs, rooms, rooms_left, dotVars, runVars>>
notDotVars == <<graphVars, idVars, worldVars, nameVars, runVars>>

----------------------------------------------------------------------------
(* Bounds of the model.                                                    *)
MaxTowns == 4
MaxConnections == 7
MaxId == 4
MaxWorldId == 6

(* Configurations drawn by the specifications.                             *)
IdRanges == {<<1, MaxWorldId>>, <<2, 2>>}
TownCounts == {1, 2}
BuildingRanges == {<<0, 2>>, <<1, 1>>}
NpcRanges == {<<0, 2>>, <<1, 3>>, <<2, 2>>}
RoomRanges == {<<0, 2>>, <<1, 3>>, <<1, 1>>}
ContainerRanges == {<<0, 2>>, <<0, 0>>}
DistanceRanges == {<<3, 5>>, <<2, 2>>, <<5, 3>>}
CostMultipliers == {5, 1073741824}

----------------------------------------------------------------------------
(* Helpers over sequences and integers.                                    *)
Min(a, b) == IF a <= b THEN a ELSE b

Range(s) == {s[i] : i \in 1..Len(s)}

(* Option<T>: None, or Some(x) holding x.                                  *)
None == <<>>

Some(x) == <<x>>

(* rand's gen_range(lo..hi): the values it may return; it panics with      *)
(* "cannot sample empty range" when lo >= hi.                              *)
GenRange(lo, hi) == {v \in lo..(hi - 1) : TRUE}

GenRangePanics(lo, hi) == lo >= hi

(* A panic ends the routine: pc and failure after it.                      *)
Panic(message) == pc' = "panic" /\ failure' = message

EmptyRange == "cannot sample empty range"

MulOverflow == "attempt to multiply with overflow"

SubOverflow == "attempt to subtract with overflow"

----------------------------------------------------------------------------
(* 32-bit unsigned arithmetic.  Operands are integers below 2^31; a result *)
(* that may exceed the checker's integer range is kept as two 16-bit       *)
(* halves <<high, low>>.  A product is assembled from partial products     *)
(* that each stay below 2^31.                                              *)
Hi16(x) == x \div 65536

Lo16(x) == x % 65536

(* Lo16(x) * Lo16(y) as <<carry into the high half, low half>>.            *)
MulLowParts(p0, p1) ==
    <<((p0 + (p1 % 256) * 256) \div 65536) + (p1 \div 256), (p0 + (p1 % 256) * 256) % 65536>>

MulLow(x, y) == MulLowParts(Lo16(x) * (Lo16(y) % 256), Lo16(x) * (Lo16(y) \div 256))

(* The sum that lands in bits 16 and up of x * y, apart from               *)
(* Hi16(x) * Hi16(y) * 2^32: <<what spills past bit 31, bits 16..31>>.     *)
MulMiddleParts(a, b, carry) ==
    <<(a \div 65536) + (b \div 65536) + (((a % 65536) + (b % 65536) + carry) \div 65536),
      ((a % 65536) + (b % 65536) + carry) % 65536>>

MulMiddle(x, y) == MulMiddleParts(Hi16(x) * Lo16(y), Lo16(x) * Hi16(y), MulLow(x, y)[1])

(* x * y on u32 operands: the low 32 bits of the product.                  *)
WrappingMul(x, y) == <<MulMiddle(x, y)[2], MulLow(x, y)[2]>>

(* Whether the true product x * y needs more than 32 bits.                 *)
MulOverflows(x, y) == Hi16(x) * Hi16(y) > 0 \/ MulMiddle(x, y)[1] > 0

----------------------------------------------------------------------------
(* Text.  The str methods the codec uses, over sequences of characters.    *)
(* A position is 1-based; 0 stands for "not found" (Option::None).         *)

IsWhitespace(c) == c \in {" ", "\t", "\n", "\r"}

RECURSIVE TrimStart(_)
TrimStart(s) == IF s # <<>> /\ IsWhitespace(s[1]) THEN TrimStart(Tail(s)) ELSE s

RECURSIVE TrimEnd(_)
TrimEnd(s) ==
    IF s # <<>> /\ IsWhitespace(s[Len(s)]) THEN TrimEnd(SubSeq(s, 1, Len(s) - 1)) ELSE s

Trim(s) == TrimEnd(TrimStart(s))

(* trim_matches(c): every leading and trailing c is removed.               *)
RECURSIVE TrimMatches(_, _)
TrimMatches(s, c) ==
    IF s # <<>> /\ s[1] = c THEN TrimMatches(Tail(s), c)
    ELSE IF s # <<>> /\ s[Len(s)] = c THEN TrimMatches(SubSeq(s, 1, Len(s) - 1), c)
    ELSE s

StartsWith(s, prefix) == Len(s) >= Len(prefix) /\ SubSeq(s, 1, Len(prefix)) = prefix

(* find(pattern): where the first occurrence starts.                       *)
Occurrences(s, pattern) ==
    {i \in 1..(Len(s) - Len(pattern) + 1) : SubSeq(s, i, i + Len(pattern) - 1) = pattern}

Find(s, pattern) ==
    IF Occurrences(s, pattern) = {} THEN 0
    ELSE CHOOSE i \in Occurrences(s, pattern) : \A j \in Occurrences(s, pattern) : i <= j

StrContains(s, pattern) == Occurrences(s, pattern) # {}

(* split(pattern): the pieces between the occurrences, taken left to       *)
(* right without overlap.  SplitAt is the step at the occurrence i.        *)
RECURSIVE Split(_, _)
SplitAt(s, pattern, i) ==
    IF i = 0 THEN <<s>>
    ELSE <<SubSeq(s, 1, i - 1)>> \o Split(SubSeq(s, i + Len(pattern), Len(s)), pattern)

Split(s, pattern) == SplitAt(s, pattern, Find(s, pattern))

(* lines(): the pieces between line feeds, a final empty piece dropped, a  *)
(* carriage return before the line feed removed.                           *)
StripCarriageReturn(line) ==
    IF line # <<>> /\ line[Len(line)] = "\r" THEN SubSeq(line, 1, Len(line) - 1) ELSE line

DropFinalEmpty(pieces) ==
    IF pieces[Len(pieces)] = <<>> THEN SubSeq(pieces, 1, Len(pieces) - 1) ELSE pieces

Lines(text) ==
    LET pieces == DropFinalEmpty(Split(text, <<"\n">>))
    IN  [k \in 1..Len(pieces) |-> StripCarriageReturn(pieces[k])]

(* split_whitespace().next(): the first run of non-whitespace characters,  *)
(* <<>> when there is none (Option::None).                                 *)
RECURSIVE TakeToken(_)
TakeToken(s) ==
    IF s = <<>> \/ IsWhitespace(s[1]) THEN <<>> ELSE <<s[1]>> \o TakeToken(Tail(s))

FirstWord(s) == TakeToken(TrimStart(s))

Digits == <<"0", "1", "2", "3", "4", "5", "6", "7", "8", "9">>

DigitValue(c) == (CHOOSE d \in 1..10 : Digits[d] = c) - 1

(* Display of a u32 <<high, low>>: its decimal digits.  DivTen is the      *)
(* quotient and remainder of the division by ten.                          *)
DivTen(x) ==
    LET low == (x[1] % 10) * 65536 + x[2]
    IN  [quotient |-> <<x[1] \div 10, low \div 10>>, remainder |-> low % 10]

RECURSIVE FormatU32(_)
FormatU32(x) ==
    IF x[1] = 0 /\ x[2] < 10 THEN <<Digits[x[2] + 1]>>
    ELSE Append(FormatU32(DivTen(x).quotient), Digits[DivTen(x).remainder + 1])

(* str::parse::<u32>: an optional "+", then one or more decimal digits     *)
(* whose value fits 32 bits; None otherwise.  ParseDigits folds the digits *)
(* into the value acc, <<high, low>>.                                      *)
RECURSIVE ParseDigits(_, _)
ParseStep(acc, rest, low) ==
    IF acc[1] * 10 + (low \div 65536) >= 65536 THEN None
    ELSE ParseDigits(<<acc[1] * 10 + (low \div 65536), low % 65536>>, rest)

ParseDigits(acc, s) ==
    IF s = <<>> THEN Some(acc)
    ELSE IF s[1] \notin Range(Digits) THEN None
    ELSE ParseStep(acc, Tail(s), acc[2] * 10 + DigitValue(s[1]))

ParseU32(s) ==
    IF s # <<>> /\ s[1] = "+" THEN (IF Len(s) = 1 THEN None ELSE ParseDigits(<<0, 0>>, Tail(s)))
    ELSE IF s = <<>> THEN None
    ELSE ParseDigits(<<0, 0>>, s)

----------------------------------------------------------------------------
(* petgraph's UnionFind over the indices 0..n-1.                           *)
UnionFindNew(n) == [parent |-> [i \in 0..(n - 1) |-> i], rank |-> [i \in 0..(n - 1) |-> 0]]

(* find_mut: the representative of x, halving the path on the way.         *)
RECURSIVE FindMut(_, _)
FindMut(u, x) ==
    LET parent == u.parent[x]
    IN  IF parent = x
        THEN [rep |-> x, uf |-> u]
        ELSE LET grandparent == u.parent[parent]
             IN  FindMut([u EXCEPT !.parent[x] = grandparent], parent)

(* union(x, y): merge by rank; ok is FALSE when x and y were already in    *)
(* one set.  UnionReps is the part after the two find_mut calls.           *)
UnionReps(v, xrep, yrep) ==
    IF xrep = yrep THEN [ok |-> FALSE, uf |-> v]
    ELSE IF v.rank[xrep] < v.rank[yrep]
         THEN [ok |-> TRUE, uf |-> [v EXCEPT !.parent[xrep] = yrep]]
    ELSE IF v.rank[xrep] > v.rank[yrep]
         THEN [ok |-> TRUE, uf |-> [v EXCEPT !.parent[yrep] = xrep]]
    ELSE [ok |-> TRUE, uf |-> [v EXCEPT !.parent[yrep] = xrep, !.rank[xrep] = @ + 1]]

UnionFound(fx, fy) == UnionReps(fy.uf, fx.rep, fy.rep)

UnionFrom(fx, y) == UnionFound(fx, FindMut(fx.uf, y))

Union(u, x, y) ==
    IF x = y THEN [ok |-> FALSE, uf |-> u] ELSE UnionFrom(FindMut(u, x), y)

----------------------------------------------------------------------------
(* generate_graph.  Towns are their node indices 0..num_of_towns-1.        *)

(* lines 716-722: one vertex per town, in the order of the town list.      *)
AddNodes ==
    /\ pc = "nodes"
    /\ town_nodes' = [k \in 1..settings.num_of_towns |-> k - 1]
    /\ pc' = "pairs"
    /\ UNCHANGED <<settings, overflow_checks, failure, town_pairs, tie_order, uf, edges, edges_added>>
    /\ UNCHANGED notGraphVars

(* itertools' tuple_combinations over the node list: every unordered pair  *)
(* once, in lexicographic order of the positions.                          *)
RECURSIVE CombinationsFrom(_, _, _)
CombinationsFrom(nodes, i, j) ==
    IF i >= Len(nodes) THEN <<>>
    ELSE IF j > Len(nodes) THEN CombinationsFrom(nodes, i + 1, i + 2)
    ELSE <<<<nodes[i], nodes[j]>>>> \o CombinationsFrom(nodes, i, j + 1)

TupleCombinations(nodes) == CombinationsFrom(nodes, 1, 2)

(* One step of the sort: put x into an ascending sequence.  Among equal    *)
(* keys the order is not fixed by sort_unstable_by_key: "stable" keeps the *)
(* enumeration order, "reversed" inverts it.                               *)
RECURSIVE SortInsert(_, _, _)
SortInsert(s, x, order) ==
    IF s = <<>> THEN <<x>>
    ELSE IF (order = "stable" /\ s[Len(s)][3] <= x[3]) \/ (order = "reversed" /\ s[Len(s)][3] < x[3])
         THEN Append(s, x)
         ELSE Append(SortInsert(SubSeq(s, 1, Len(s) - 1), x, order), s[Len(s)])

RECURSIVE SortByDistance(_, _)
(* A faulty sort: the pairs stay in enumeration order.                     *)
LeaveUnsorted(s, order) == s

SortByDistance(s, order) ==
    IF s = <<>> THEN <<>>
    ELSE SortInsert(SortByDistance(SubSeq(s, 1, Len(s) - 1), order), s[Len(s)], order)

(* JourneyInfo {distance, cost} on an edge from town1 to town2.            *)
Edge(town1, town2, distance, cost) ==
    [source |-> town1, target |-> town2, distance |-> distance, cost |-> cost]

(* lines 731-740: draw a distance for every pair, then sort by distance.   *)
DrawPairs ==
    /\ pc = "pairs"
    /\ LET combos == TupleCombinations(town_nodes)
       IN  IF combos # <<>> /\ GenRangePanics(settings.min_distance, settings.max_distance)
           THEN /\ Panic(EmptyRange)
                /\ UNCHANGED <<town_pairs, tie_order>>
           ELSE /\ \E dist \in [1..Len(combos) -> GenRange(settings.min_distance, settings.max_distance)] :
                   \E order \in {"stable", "reversed"} :
                      /\ tie_order' = order
                      /\ town_pairs' = SortByDistance(
                            [k \in 1..Len(combos) |-> <<combos[k][1], combos[k][2], dist[k]>>], order)
                /\ pc' = "spanning"
                /\ UNCHANGED failure
    /\ UNCHANGED <<settings, overflow_checks, town_nodes, uf, edges, edges_added>>
    /\ UNCHANGED notGraphVars

(* The edge the code adds for a pair: cost = settings.cost * distance.     *)
PairEdge(pair) == Edge(pair[1], pair[2], pair[3], WrappingMul(settings.cost, pair[3]))

(* The multiplication traps in a build with overflow checks.               *)
CostPanics(pair) == overflow_checks /\ MulOverflows(settings.cost, pair[3])

(* lines 745-761: the union-find scan from position k on; it stops at the  *)
(* first pair whose cost computation panics.  KruskalStep is the body of   *)
(* one iteration, given the outcome r of uf.union.                         *)
RECURSIVE KruskalScan(_, _, _, _)
(* A faulty iteration body: the test of uf.union's outcome is inverted.    *)
KruskalStepInverted(k, pair, r, es, added) ==
    IF r.ok THEN KruskalScan(k + 1, r.uf, es, added)
    ELSE IF CostPanics(pair) THEN [uf |-> r.uf, edges |-> es, added |-> added, panic |-> TRUE]
    ELSE KruskalScan(k + 1, r.uf, Append(es, PairEdge(pair)), added + 1)

KruskalStep(k, pair, r, es, added) ==
    IF ~r.ok THEN KruskalScan(k + 1, r.uf, es, added)
    ELSE IF CostPanics(pair) THEN [uf |-> r.uf, edges |-> es, added |-> added, panic |-> TRUE]
    ELSE KruskalScan(k + 1, r.uf, Append(es, PairEdge(pair)), added + 1)

KruskalScan(k, u, es, added) ==
    IF k > Len(town_pairs) THEN [uf |-> u, edges |-> es, added |-> added, panic |-> FALSE]
    ELSE KruskalStep(k, town_pairs[k], Union(u, town_pairs[k][1], town_pairs[k][2]), es, added)

(* lines 742-761: the first loop.                                          *)
SpanningTree ==
    /\ pc = "spanning"
    /\ \E r \in {KruskalScan(1, UnionFindNew(Len(town_nodes)), edges, 0)} :
           /\ uf' = r.uf
           /\ edges' = r.edges
           /\ edges_added' = r.added
           /\ IF r.panic THEN Panic(MulOverflow) ELSE pc' = "extra" /\ UNCHANGED failure
    /\ UNCHANGED <<settings, overflow_checks, town_nodes, town_pairs, tie_order>>
    /\ UNCHANGED notGraphVars

(* line 766: num_of_connections as usize - edges_added.  The subtraction   *)
(* underflows when the budget is below the spanning edge count: a panic    *)
(* with overflow checks, otherwise a count near 2^64, which exceeds the    *)
(* length of any slice, so take() lets every remaining pair through.       *)
TakeUnderflows == settings.num_of_connections < edges_added

(* A faulty count: the spanning edges are not deducted from the budget.    *)
TakeCountNoSubtract == settings.num_of_connections

TakeCount ==
    IF TakeUnderflows THEN Len(town_pairs)
    ELSE settings.num_of_connections - edges_added

(* skip(edges_added).take(count): the positions of town_pairs the second   *)
(* loop visits.                                                            *)
SkipTake(skip, count) == {k \in 1..Len(town_pairs) : k > skip /\ k <= skip + count}

(* lines 763-770 from position k on, over the positions in visit.          *)
RECURSIVE ExtraScan(_, _, _)
ExtraScan(k, visit, es) ==
    IF k > Len(town_pairs) THEN [edges |-> es, panic |-> FALSE]
    ELSE IF k \notin visit THEN ExtraScan(k + 1, visit, es)
    ELSE IF CostPanics(town_pairs[k]) THEN [edges |-> es, panic |-> TRUE]
    ELSE ExtraScan(k + 1, visit, Append(es, PairEdge(town_pairs[k])))

(* lines 763-774: the second loop, then the return of the graph.           *)
ExtraEdges ==
    /\ pc = "extra"
    /\ IF overflow_checks /\ TakeUnderflows
       THEN Panic(SubOverflow) /\ UNCHANGED edges
       ELSE \E r \in {ExtraScan(1, SkipTake(edges_added, TakeCount), edges)} :
                /\ edges' = r.edges
                /\ IF r.panic THEN Panic(MulOverflow) ELSE pc' = "done" /\ UNCHANGED failure
    /\ UNCHANGED <<settings, overflow_checks, town_nodes, town_pairs, tie_order, uf, edges_added>>
    /\ UNCHANGED notGraphVars

DefaultSettings ==
    [num_of_towns |-> 0, num_of_connections |-> 0, min_distance |-> 0, max_distance |-> 0,
     cost |-> 0, min_id |-> 0, max_id |-> 0, min_buildings |-> 0, max_buildings |-> 0,
     min_npcs |-> 0, max_npcs |-> 0, min_rooms |-> 0, max_rooms |-> 0,
     min_containers |-> 0, max_containers |-> 0]

(* No word file read, no name made.                                        *)
NamesIdle ==
    /\ word_files = <<>>
    /\ building_name = <<>>
    /\ npc_name = <<>>
    /\ town_name = <<>>

NoBuilding == [id |-> 0, building_type |-> "Residence", town_id |-> 0]

NoTown == [id |-> 0, number_of_buildings |-> 0]

WorldIdle ==
    /\ towns = <<>>
    /\ town = NoTown
    /\ buildings = <<>>
    /\ building = NoBuilding
    /\ npcs = <<>>
    /\ rooms = <<>>
    /\ rooms_left = 0

(* IdTracker::new: no id issued.                                           *)
IdTrackerNew ==
    /\ ids = {}
    /\ id = 0
    /\ issued = <<>>

GraphIdle ==
    /\ town_nodes = <<>>
    /\ town_pairs = <<>>
    /\ tie_order = "stable"
    /\ uf = UnionFindNew(0)
    /\ edges = <<>>
    /\ edges_added = 0

(* A faulty seeding: the source is made from the number of the run.        *)
SeedFromRun(seed) == [seed |-> run, words |-> 0]

(* StdRng::seed_from_u64(seed): no word drawn yet.                         *)
SeedFromU64(seed) == [seed |-> seed, words |-> 0]

(* World with its five mappings empty.                                     *)
WorldNew == [towns |-> <<>>, buildings |-> <<>>, rooms |-> <<>>, npcs |-> <<>>, containers |-> <<>>]

RunIdle ==
    /\ generator = <<>>
    /\ seeds = <<>>
    /\ run = 0
    /\ rng = SeedFromU64(0)
    /\ tracker_rng = SeedFromU64(0)
    /\ world = WorldNew
    /\ results = <<>>

(* Graph::new: no vertex, no edge.  HashMap::new: no key.                  *)
GraphNew == [nodes |-> <<>>, edges |-> <<>>]

HashMapNew == [key \in {} |-> 0]

DotIdle ==
    /\ graph = GraphNew
    /\ dot_output = <<>>
    /\ file_content = <<>>
    /\ lines = <<>>
    /\ raw_graph = GraphNew
    /\ node_indices = HashMapNew

InitGraph ==
    /\ \E n \in 0..MaxTowns, c \in 0..MaxConnections, d \in DistanceRanges, m \in CostMultipliers :
          settings = [DefaultSettings EXCEPT !.num_of_towns = n, !.num_of_connections = c,
                         !.min_distance = d[1], !.max_distance = d[2], !.cost = m]
    /\ overflow_checks \in BOOLEAN
    /\ pc = "nodes"
    /\ failure = "none"
    /\ GraphIdle
    /\ IdTrackerNew
    /\ WorldIdle
    /\ NamesIdle
    /\ DotIdle
    /\ RunIdle

NextGraph == AddNodes \/ DrawPairs \/ SpanningTree \/ ExtraEdges

SpecGraph == InitGraph /\ [][NextGraph]_vars

----------------------------------------------------------------------------
(* IdTracker::get_new_id, called again and again on one tracker.           *)

(* line 214: self.ids.contains(&id).                                       *)
(* A faulty test: the drawn id is never taken to be in use.                *)
ContainsNever(set, x) == FALSE

Contains(set, x) == x \in set

(* line 212: the call and its first draw.                                  *)
GetNewIdCall ==
    /\ pc = "idle"
    /\ IF GenRangePanics(settings.min_id, settings.max_id)
       THEN Panic(EmptyRange) /\ UNCHANGED id
       ELSE /\ \E v \in GenRange(settings.min_id, settings.max_id) : id' = v
            /\ pc' = "loop"
            /\ UNCHANGED failure
    /\ UNCHANGED <<settings, overflow_checks, ids, issued, notIdVars>>

(* A faulty redraw: the source gives the value it gave before.             *)
GetNewIdRedrawSame ==
    /\ pc = "loop"
    /\ Contains(ids, id)
    /\ UNCHANGED vars

(* lines 214-216: the drawn id is in use; draw again.                      *)
GetNewIdRedraw ==
    /\ pc = "loop"
    /\ Contains(ids, id)
    /\ \E v \in GenRange(settings.min_id, settings.max_id) : id' = v
    /\ UNCHANGED <<settings, overflow_checks, pc, failure, ids, issued, notIdVars>>

(* lines 217-219: the drawn id is unused; record and return it.            *)
GetNewIdReturn ==
    /\ pc = "loop"
    /\ ~Contains(ids, id)
    /\ ids' = ids \cup {id}
    /\ issued' = Append(issued, id)
    /\ pc' = "idle"
    /\ UNCHANGED <<settings, overflow_checks, failure, id, notIdVars>>

InitIds ==
    /\ \E lo \in 0..MaxId, hi \in 0..MaxId :
          settings = [DefaultSettings EXCEPT !.min_id = lo, !.max_id = hi]
    /\ overflow_checks = FALSE  \* no arithmetic of these routines overflows
    /\ pc = "idle"
    /\ failure = "none"
    /\ IdTrackerNew
    /\ GraphIdle
    /\ WorldIdle
    /\ NamesIdle
    /\ DotIdle
    /\ RunIdle

NextIds == GetNewIdCall \/ GetNewIdRedraw \/ GetNewIdReturn

SpecIds == InitIds /\ [][NextIds]_vars

(* Fair random draws: a loop that keeps redrawing draws, sooner or later,  *)
(* a value that is not in use if there is one (a uniform draw misses it    *)
(* forever with probability 0); and the loop's exit is taken once the      *)
(* drawn value is unused.  Whether get_new_id is called again is left to   *)
(* the caller.                                                             *)
RedrawUnused == GetNewIdRedraw /\ ~Contains(ids, id')

SpecIdsFair == SpecIds /\ SF_vars(RedrawUnused) /\ WF_vars(GetNewIdReturn)

----------------------------------------------------------------------------
(* generate_towns, generate_buildings, generate_npcs, generate_rooms and   *)
(* generate_containers.  Inside them a call of get_new_id is taken whole:  *)
(* it panics on an empty id range, returns any id that is not in use, and  *)
(* does not return when every id of the range is in use.                   *)

FreshIds == {v \in GenRange(settings.min_id, settings.max_id) : ~Contains(ids, v)}

IdRangeEmpty == GenRangePanics(settings.min_id, settings.max_id)

(* The sequences of n distinct elements of S: the outcomes of n calls of   *)
(* get_new_id in a row, and the orders shuffle can leave.                  *)
RECURSIVE DistinctSeqs(_, _)
DistinctSeqs(S, n) ==
    IF n = 0 THEN {<<>>}
    ELSE UNION {{Append(q, x) : x \in S \ Range(q)} : q \in DistinctSeqs(S, n - 1)}

BuildingTypes == {"Residence", "Shop", "Tavern", "Temple"}

(* lines 336-341 (1013-1019 on import): a town's id and building count.    *)
GenerateTown ==
    /\ pc = "town"
    /\ Len(towns) < settings.num_of_towns
    /\ IF IdRangeEmpty \/ GenRangePanics(settings.min_buildings, settings.max_buildings)
       THEN Panic(EmptyRange) /\ UNCHANGED <<ids, town>>
       ELSE /\ \E town_id \in FreshIds :
               \E number_of_buildings \in GenRange(settings.min_buildings, settings.max_buildings) :
                  /\ ids' = ids \cup {town_id}
                  /\ town' = [id |-> town_id, number_of_buildings |-> number_of_buildings]
            /\ pc' = "buildings"
            /\ UNCHANGED failure
    /\ UNCHANGED <<settings, overflow_checks, towns, buildings, building, npcs, rooms, rooms_left,
                   notWorldVars>>

(* lines 410-435: a building's id and type.                                *)
StartBuilding ==
    /\ pc = "buildings"
    /\ Len(buildings) < town.number_of_buildings
    /\ \E building_id \in FreshIds :
       \E building_type \in BuildingTypes :
          /\ ids' = ids \cup {building_id}
          /\ building' = [id |-> building_id, building_type |-> building_type, town_id |-> town.id]
    /\ pc' = "npcs"
    /\ UNCHANGED <<settings, overflow_checks, failure, towns, town, buildings, npcs, rooms,
                   rooms_left, notWorldVars>>

(* lines 524-528: the building's number of inhabitants.                    *)
NpcCounts(building_type) ==
    IF building_type = "Shop" THEN {1}
    ELSE IF building_type = "Residence" THEN {2}
    ELSE GenRange(settings.min_npcs, settings.max_npcs)

(* lines 546-563: a new inhabitant of the building under construction.     *)
Npc(npc_id) ==
    [id |-> npc_id, town_id |-> building.town_id, building_id |-> building.id, room_id |-> None]

(* lines 508-567: generate_npcs.                                           *)
GenerateNpcs ==
    /\ pc = "npcs"
    /\ IF NpcCounts(building.building_type) = {}
       THEN Panic(EmptyRange) /\ UNCHANGED <<ids, npcs>>
       ELSE /\ \E number_of_npcs \in NpcCounts(building.building_type) :
               \E npc_ids \in DistinctSeqs(FreshIds, number_of_npcs) :
                  /\ ids' = ids \cup Range(npc_ids)
                  /\ npcs' = [k \in 1..number_of_npcs |-> Npc(npc_ids[k])]
            /\ pc' = "rooms"
            /\ UNCHANGED failure
    /\ UNCHANGED <<settings, overflow_checks, towns, town, buildings, building, rooms, rooms_left,
                   notWorldVars>>

(* lines 638-640: generate_rooms draws the number of rooms.                *)
DrawRoomCount ==
    /\ pc = "rooms"
    /\ IF GenRangePanics(settings.min_rooms, settings.max_rooms)
       THEN Panic(EmptyRange) /\ UNCHANGED rooms_left
       ELSE /\ \E number_of_rooms \in GenRange(settings.min_rooms, settings.max_rooms) :
               rooms_left' = number_of_rooms
            /\ pc' = "room"
            /\ UNCHANGED failure
    /\ rooms' = <<>>
    /\ UNCHANGED <<settings, overflow_checks, ids, towns, town, buildings, building, npcs,
                   notWorldVars>>

(* A faulty container: its room_id is the id of the building.              *)
ContainerOfBuilding(container_id, room_id) ==
    [id |-> container_id, town_id |-> building.town_id, building_id |-> building.id,
     room_id |-> building.id]

(* lines 696-702: a new container of the room room_id.                     *)
Container(container_id, room_id) ==
    [id |-> container_id, town_id |-> building.town_id, building_id |-> building.id,
     room_id |-> room_id]

(* lines 642-659 with generate_containers (674-706): one iteration of the  *)
(* room loop.                                                              *)
NewRoom ==
    /\ pc = "room"
    /\ rooms_left > 0
    /\ \E room_id \in FreshIds :
          IF GenRangePanics(settings.min_containers, settings.max_containers)
          THEN /\ Panic(EmptyRange)
               /\ ids' = ids \cup {room_id}
               /\ UNCHANGED <<rooms, rooms_left>>
          ELSE /\ \E num_of_containers \in GenRange(settings.min_containers, settings.max_containers) :
                  \E container_ids \in DistinctSeqs(FreshIds \ {room_id}, num_of_containers) :
                     /\ ids' = ids \cup {room_id} \cup Range(container_ids)
                     /\ rooms' = Append(rooms,
                           [id |-> room_id, town_id |-> building.town_id,
                            building_id |-> building.id, npcs |-> <<>>,
                            containers |-> [k \in 1..num_of_containers |->
                                               Container(container_ids[k], room_id)]])
               /\ rooms_left' = rooms_left - 1
               /\ UNCHANGED <<pc, failure>>
    /\ UNCHANGED <<settings, overflow_checks, towns, town, buildings, building, npcs, notWorldVars>>

(* lines 663-668: the inhabitants, taken in the order order, each pushed   *)
(* to the room choice picks for it; without rooms choose_mut gives None    *)
(* and the inhabitant is dropped.                                          *)
RECURSIVE Place(_, _, _, _)
Place(rs, order, choice, k) ==
    IF k > Len(order) \/ rs = <<>> THEN rs
    ELSE Place([rs EXCEPT ![choice[k]].npcs =
                   Append(@, [npcs[order[k]] EXCEPT !.room_id = Some(rs[choice[k]].id)])],
               order, choice, k + 1)

(* lines 661-670 and 447-450: shuffle, place, and push the building.       *)
PlaceNpcs ==
    /\ pc = "room"
    /\ rooms_left = 0
    /\ \E order \in DistinctSeqs(1..Len(npcs), Len(npcs)) :
       \E choice \in [1..Len(npcs) -> 1..Len(rooms)] \cup {<<>>} :
          /\ (choice = <<>>) <=> (rooms = <<>> \/ npcs = <<>>)
          /\ rooms' = Place(rooms, order, choice, 1)
          /\ buildings' = Append(buildings,
                [id |-> building.id, building_type |-> building.building_type,
                 town_id |-> building.town_id, rooms |-> rooms'])
    /\ npcs' = <<>>
    /\ pc' = "buildings"
    /\ UNCHANGED <<settings, overflow_checks, failure, ids, towns, town, building, rooms_left,
                   notWorldVars>>

(* lines 343-349 (1021-1027): the town is pushed with its buildings.       *)
FinishTown ==
    /\ pc = "buildings"
    /\ Len(buildings) = town.number_of_buildings
    /\ towns' = Append(towns, [id |-> town.id, number_of_buildings |-> town.number_of_buildings,
                               buildings |-> buildings])
    /\ buildings' = <<>>
    /\ pc' = IF Len(towns') < settings.num_of_towns THEN "town" ELSE "done"
    /\ UNCHANGED <<settings, overflow_checks, failure, ids, town, building, npcs, rooms, rooms_left,
                   notWorldVars>>

InitWorld ==
    /\ \E n \in TownCounts, i \in IdRanges, b \in BuildingRanges, p \in NpcRanges,
          r \in RoomRanges, c \in ContainerRanges :
          settings = [DefaultSettings EXCEPT !.num_of_towns = n, !.min_id = i[1], !.max_id = i[2],
                         !.min_buildings = b[1], !.max_buildings = b[2],
                         !.min_npcs = p[1], !.max_npcs = p[2], !.min_rooms = r[1],
                         !.max_rooms = r[2], !.min_containers = c[1], !.max_containers = c[2]]
    /\ overflow_checks = FALSE  \* no arithmetic of these routines overflows
    /\ pc = "town"
    /\ failure = "none"
    /\ IdTrackerNew
    /\ WorldIdle
    /\ GraphIdle
    /\ NamesIdle
    /\ DotIdle
    /\ RunIdle

NextWorld ==
    GenerateTown \/ StartBuilding \/ GenerateNpcs \/ DrawRoomCount \/ NewRoom \/ PlaceNpcs
        \/ FinishTown

SpecWorld == InitWorld /\ [][NextWorld]_vars

----------------------------------------------------------------------------
(* Name synthesis: load_list and the three generate_*_name functions.      *)

NoData == <<"N", "O", " ", "D", "A", "T", "A">>

FileNames ==
    {"town-prefixes.txt", "town-roots.txt", "town-suffixes.txt", "surnames.txt", "shops.txt",
     "taverns.txt", "temples.txt", "names-male.txt", "names-female.txt", "names-unisex.txt"}

(* The word files the specification draws: absent, present without a      *)
(* line, present with two lines.                                           *)
AbsentFile == [exists |-> FALSE, lines |-> <<>>]

BlankFile == [exists |-> TRUE, lines |-> <<>>]

WordFile == [exists |-> TRUE, lines |-> <<<<"A", "s", "h">>, <<"O", "a", "k">>>>]

(* lines 224-241: the lines of the file, or the one-word list "NO DATA"    *)
(* when the file cannot be opened.                                         *)
LoadList(filename) ==
    IF word_files[filename].exists THEN word_files[filename].lines ELSE <<NoData>>

(* list.get(rng.gen_range(0..list.len())): the draw panics on an empty     *)
(* list; otherwise get returns Some(word), the index being in range.       *)
DrawPanics(list) == GenRangePanics(0, Len(list))

Draw(list) == {list[i + 1] : i \in GenRange(0, Len(list))}

(* building_name.split([' ', '\'']).next().unwrap(): the text before the   *)
(* first space or apostrophe.                                              *)
RECURSIVE FirstToken(_)
FirstToken(name) ==
    IF name = <<>> \/ name[1] \in {" ", "'"} THEN <<>>
    ELSE <<name[1]>> \o FirstToken(Tail(name))

(* lines 463-505: generate_building_name for the building's type.          *)
GenerateBuildingName ==
    /\ pc = "building_name"
    /\ LET surnames == LoadList("surnames.txt")
           shops == LoadList("shops.txt")
           taverns == LoadList("taverns.txt")
           temples == LoadList("temples.txt")
           building_type == building.building_type
       IN  IF \/ building_type \in {"Residence", "Shop"} /\ DrawPanics(surnames)
              \/ building_type = "Shop" /\ DrawPanics(shops)
              \/ building_type = "Tavern" /\ DrawPanics(taverns)
              \/ building_type = "Temple" /\ DrawPanics(temples)
           THEN Panic(EmptyRange) /\ UNCHANGED building_name
           ELSE /\ \/ /\ building_type = "Residence"
                      /\ \E name \in Draw(surnames) :
                            building_name' = name \o <<" ", "R", "e", "s", "i", "d", "e", "n", "c", "e">>
                   \/ /\ building_type = "Shop"
                      /\ \E name \in Draw(surnames), shop \in Draw(shops) :
                            building_name' = name \o <<"'", "s", " ">> \o shop
                   \/ /\ building_type = "Tavern"
                      /\ \E name \in Draw(taverns) : building_name' = name
                   \/ /\ building_type = "Temple"
                      /\ \E temple \in Draw(temples) :
                            building_name' = <<"T", "e", "m", "p", "l", "e", " ", "o", "f", " ", "t", "h", "e", " ">> \o temple
                /\ pc' = "npc_name"
                /\ UNCHANGED failure
    /\ UNCHANGED <<settings, overflow_checks, word_files, building, npc_name, town_name, notNameVars>>

(* The list of first names for a sex tag (lines 583-605).                  *)
FirstNames(sex) ==
    IF sex = "Male" THEN LoadList("names-male.txt")
    ELSE IF sex = "Female" THEN LoadList("names-female.txt")
    ELSE LoadList("names-unisex.txt")

(* lines 533-538 and 571-627: an inhabitant's sex and name.                *)
GenerateNpcName ==
    /\ pc = "npc_name"
    /\ \E sex \in {"Male", "Female", "Unisex"} :
       LET surnames == LoadList("surnames.txt")
           building_type == building.building_type
       IN  IF DrawPanics(FirstNames(sex)) \/ (building_type = "Tavern" /\ DrawPanics(surnames))
           THEN Panic(EmptyRange) /\ UNCHANGED npc_name
           ELSE /\ \E firstname \in Draw(FirstNames(sex)) :
                   \/ /\ building_type \in {"Residence", "Shop"}
                      /\ npc_name' = firstname \o <<" ">> \o FirstToken(building_name)
                   \/ /\ building_type = "Tavern"
                      /\ \E surname \in Draw(surnames) :
                            npc_name' = firstname \o <<" ">> \o surname
                   \/ /\ building_type = "Temple"
                      /\ npc_name' = firstname \o <<" ", "o", "f", " ", "t", "h", "e", " ">> \o building_name
                /\ pc' = "town_name"
                /\ UNCHANGED failure
    /\ UNCHANGED <<settings, overflow_checks, word_files, building, building_name, town_name,
                   notNameVars>>

(* lines 362-390: generate_town_name.                                      *)
GenerateTownName ==
    /\ pc = "town_name"
    /\ LET prefixes == LoadList("town-prefixes.txt")
           roots == LoadList("town-roots.txt")
           suffixes == LoadList("town-suffixes.txt")
       IN  IF DrawPanics(prefixes) \/ DrawPanics(roots) \/ DrawPanics(suffixes)
           THEN Panic(EmptyRange) /\ UNCHANGED town_name
           ELSE /\ \E prefix \in Draw(prefixes), root \in Draw(roots), suffix \in Draw(suffixes) :
                   town_name' = prefix \o <<" ">> \o root \o suffix
                /\ pc' = "done"
                /\ UNCHANGED failure
    /\ UNCHANGED <<settings, overflow_checks, word_files, building, building_name, npc_name,
                   notNameVars>>

(* One file of the input directory is absent, blank or as the others; the  *)
(* others hold two words each.                                             *)
InitNames ==
    /\ \E odd \in FileNames, file \in {AbsentFile, BlankFile, WordFile} :
          word_files = [f \in FileNames |-> IF f = odd THEN file ELSE WordFile]
    /\ \E building_type \in BuildingTypes :
          building = [NoBuilding EXCEPT !.building_type = building_type]
    /\ settings = DefaultSettings
    /\ overflow_checks = FALSE  \* no arithmetic of these routines overflows
    /\ pc = "building_name"
    /\ failure = "none"
    /\ building_name = <<>>
    /\ npc_name = <<>>
    /\ town_name = <<>>
    /\ towns = <<>>
    /\ town = NoTown
    /\ buildings = <<>>
    /\ npcs = <<>>
    /\ rooms = <<>>
    /\ rooms_left = 0
    /\ IdTrackerNew
    /\ GraphIdle
    /\ DotIdle
    /\ RunIdle

NextNames == GenerateBuildingName \/ GenerateNpcName \/ GenerateTownName

SpecNames == InitNames /\ [][NextNames]_vars

----------------------------------------------------------------------------
(* SpecRuns: generate_world as a function of its seed.  StdRng is a        *)
(* deterministic generator: the k-th word it yields is a function of the   *)
(* seed it was made from and of k.  The specification draws that function  *)
(* from a family of generators and follows every draw of the code; st is   *)
(* the state threaded through the calls: the two random sources, the ids   *)
(* in use, and status, "ok" until a call panics ("panic") or get_new_id    *)
(* redraws forever ("spin").                                               *)

(* The words of the generators are 0..MaxWord.                             *)
MaxWord == 30

Word(r) == (generator.step * r.words + generator.offset[r.seed]) % (MaxWord + 1)

(* gen_range(lo..hi) on the word the source yields.                        *)
GenRangeOf(r, lo, hi) == lo + (Word(r) % (hi - lo))

(* rng.gen_range(lo..hi): the value drawn and the state after the draw.    *)
Sample(st, lo, hi) ==
    IF st.status # "ok" THEN [st |-> st, value |-> lo]
    ELSE IF GenRangePanics(lo, hi) THEN [st |-> [st EXCEPT !.status = "panic"], value |-> lo]
    ELSE [st |-> [st EXCEPT !.rng.words = @ + 1], value |-> GenRangeOf(st.rng, lo, hi)]

(* list.get(rng.gen_range(0..list.len())): the index is in range, so get   *)
(* gives Some(word).                                                       *)
Pick(st, list) ==
    LET drawn == Sample(st, 0, Len(list))
    IN  [st |-> drawn.st,
         value |-> IF drawn.st.status = "ok" THEN list[drawn.value + 1] ELSE <<>>]

(* IdTracker::get_new_id (lines 211-220).  The words recur after           *)
(* MaxWord + 1 draws: a loop that has redrawn that often redraws forever.  *)
RECURSIVE GetNewId(_, _)
GetNewId(st, tries) ==
    IF st.status # "ok" THEN [st |-> st, value |-> 0]
    ELSE IF GenRangePanics(settings.min_id, settings.max_id)
         THEN [st |-> [st EXCEPT !.status = "panic"], value |-> 0]
    ELSE IF tries = 0 THEN [st |-> [st EXCEPT !.status = "spin"], value |-> 0]
    ELSE LET v == GenRangeOf(st.tracker, settings.min_id, settings.max_id)
             drawn == [st EXCEPT !.tracker.words = @ + 1]
         IN  IF Contains(st.ids, v) THEN GetNewId(drawn, tries - 1)
             ELSE [st |-> [drawn EXCEPT !.ids = @ \cup {v}], value |-> v]

NewId(st) == GetNewId(st, MaxWord + 1)

(* generate_containers (lines 674-706).  owner holds town_id, building_id  *)
(* and room_id.                                                            *)
ContainerTypes == <<"Barrel", "Crate", "Chest">>

RECURSIVE ContainersLoop(_, _, _, _)
ContainersLoop(st, left, acc, owner) ==
    IF left = 0 \/ st.status # "ok" THEN [st |-> st, value |-> acc]
    ELSE LET container_id == NewId(st)
             container_type == Sample(container_id.st, 0, Len(ContainerTypes))
         IN  ContainersLoop(container_type.st, left - 1,
                 Append(acc, [id |-> container_id.value,
                              container_type |-> ContainerTypes[container_type.value + 1],
                              town_id |-> owner.town_id, building_id |-> owner.building_id,
                              room_id |-> owner.room_id]),
                 owner)

GenerateContainers(st, owner) ==
    LET num_of_containers == Sample(st, settings.min_containers, settings.max_containers)
    IN  ContainersLoop(num_of_containers.st, num_of_containers.value, <<>>, owner)

(* generate_npc_name (lines 571-627): a first name from the list of the    *)
(* sex, then the rest by building type.                                    *)
SeededNpcName(st, b, sex) ==
    LET firstname == Pick(st, FirstNames(sex))
        surname == Pick(firstname.st, LoadList("surnames.txt"))
    IN  IF b.building_type \in {"Residence", "Shop"}
        THEN [st |-> firstname.st, value |-> firstname.value \o <<" ">> \o FirstToken(b.name)]
        ELSE IF b.building_type = "Tavern"
        THEN [st |-> surname.st, value |-> firstname.value \o <<" ">> \o surname.value]
        ELSE [st |-> firstname.st,
              value |-> firstname.value \o <<" ", "o", "f", " ", "t", "h", "e", " ">> \o b.name]

(* generate_npcs (lines 508-567) for the building b: id, sex, race, name.  *)
NpcSexes == <<"Male", "Female", "Unisex">>

NpcRaces == <<"Human", "Elf">>

RECURSIVE NpcsLoop(_, _, _, _)
NpcsLoop(st, left, acc, b) ==
    IF left = 0 \/ st.status # "ok" THEN [st |-> st, value |-> acc]
    ELSE LET npc_id == NewId(st)
             sex == Sample(npc_id.st, 0, Len(NpcSexes))
             race == Sample(sex.st, 0, Len(NpcRaces))
             name == SeededNpcName(race.st, b, NpcSexes[sex.value + 1])
         IN  NpcsLoop(name.st, left - 1,
                 Append(acc, [id |-> npc_id.value, name |-> name.value,
                              sex |-> NpcSexes[sex.value + 1], race |-> NpcRaces[race.value + 1],
                              town_id |-> b.town_id, building_id |-> b.id, room_id |-> None]),
                 b)

SeededNpcs(st, b) ==
    LET number_of_npcs == Sample(st, settings.min_npcs, settings.max_npcs)
    IN  IF b.building_type = "Shop" THEN NpcsLoop(st, 1, <<>>, b)
        ELSE IF b.building_type = "Residence" THEN NpcsLoop(st, 2, <<>>, b)
        ELSE NpcsLoop(number_of_npcs.st, number_of_npcs.value, <<>>, b)

(* npcs.shuffle(rng): for i from the last index down to 1, swap the        *)
(* elements at i and at a drawn index of 0..=i.                            *)
RECURSIVE Shuffle(_, _, _)
Shuffle(st, list, i) ==
    IF i < 1 \/ st.status # "ok" THEN [st |-> st, value |-> list]
    ELSE LET j == Sample(st, 0, i + 1)
         IN  Shuffle(j.st, [list EXCEPT ![i + 1] = list[j.value + 1], ![j.value + 1] = list[i + 1]],
                     i - 1)

(* lines 663-668: every inhabitant goes to the room choose_mut draws; it   *)
(* is dropped when there is no room (choose_mut draws nothing and gives    *)
(* None).                                                                  *)
RECURSIVE PlaceLoop(_, _, _, _)
PlaceLoop(st, list, k, rs) ==
    IF k > Len(list) \/ rs = <<>> \/ st.status # "ok" THEN [st |-> st, value |-> rs]
    ELSE LET room == Sample(st, 0, Len(rs))
         IN  PlaceLoop(room.st, list, k + 1,
                 [rs EXCEPT ![room.value + 1].npcs =
                     Append(@, [list[k] EXCEPT !.room_id = Some(rs[room.value + 1].id)])])

(* lines 641-659: the rooms of the building b, each with its containers.   *)
RECURSIVE RoomsLoop(_, _, _, _)
RoomsLoop(st, left, acc, b) ==
    IF left = 0 \/ st.status # "ok" THEN [st |-> st, value |-> acc]
    ELSE LET room_id == NewId(st)
             containers == GenerateContainers(room_id.st,
                               [town_id |-> b.town_id, building_id |-> b.id,
                                room_id |-> room_id.value])
         IN  RoomsLoop(containers.st, left - 1,
                 Append(acc, [id |-> room_id.value, town_id |-> b.town_id, building_id |-> b.id,
                              npcs |-> <<>>, containers |-> containers.value]),
                 b)

(* generate_rooms (lines 630-671) for the building b and its inhabitants.  *)
SeededRooms(st, b, list) ==
    LET number_of_rooms == Sample(st, settings.min_rooms, settings.max_rooms)
        empty_rooms == RoomsLoop(number_of_rooms.st, number_of_rooms.value, <<>>, b)
        shuffled == Shuffle(empty_rooms.st, list, Len(list) - 1)
    IN  PlaceLoop(shuffled.st, shuffled.value, 1, empty_rooms.value)

(* generate_building_name (lines 463-505).                                 *)
SeededBuildingName(st, building_type) ==
    LET name == Pick(st, LoadList("surnames.txt"))
        shop == Pick(name.st, LoadList("shops.txt"))
        temple == Pick(st, LoadList("temples.txt"))
    IN  IF building_type = "Residence"
        THEN [st |-> name.st,
              value |-> name.value \o <<" ", "R", "e", "s", "i", "d", "e", "n", "c", "e">>]
        ELSE IF building_type = "Shop"
        THEN [st |-> shop.st, value |-> name.value \o <<"'", "s", " ">> \o shop.value]
        ELSE IF building_type = "Tavern" THEN Pick(st, LoadList("taverns.txt"))
        ELSE [st |-> temple.st,
              value |-> <<"T", "e", "m", "p", "l", "e", " ", "o", "f", " ", "t", "h", "e", " ">>
                            \o temple.value]

(* generate_buildings (lines 393-460).  grid_size is the ceiling of the    *)
(* square root of number_of_buildings; position walks the grid row by row. *)
BuildingTypeOf == <<"Residence", "Shop", "Tavern", "Temple">>

GridSize(number_of_buildings) ==
    CHOOSE g \in 0..number_of_buildings :
        g * g >= number_of_buildings /\ \A h \in 0..(g - 1) : h * h < number_of_buildings

NextPosition(position, grid_size) ==
    IF position[1] + 1 >= grid_size THEN <<0, position[2] + 1>> ELSE <<position[1] + 1, position[2]>>

RECURSIVE BuildingsLoop(_, _, _, _, _, _)
BuildingsLoop(st, town_id, left, acc, position, grid_size) ==
    IF left = 0 \/ st.status # "ok" THEN [st |-> st, value |-> acc]
    ELSE LET building_id == NewId(st)
             building_type == Sample(building_id.st, 0, Len(BuildingTypeOf))
             name == SeededBuildingName(building_type.st, BuildingTypeOf[building_type.value + 1])
             b == [id |-> building_id.value, name |-> name.value,
                   building_type |-> BuildingTypeOf[building_type.value + 1],
                   town_id |-> town_id, coords |-> position, rooms |-> <<>>]
             made_npcs == SeededNpcs(name.st, b)
             made_rooms == SeededRooms(made_npcs.st, b, made_npcs.value)
         IN  BuildingsLoop(made_rooms.st, town_id, left - 1,
                           Append(acc, [b EXCEPT !.rooms = made_rooms.value]),
                           NextPosition(position, grid_size), grid_size)

SeededBuildings(st, town_id, number_of_buildings) ==
    BuildingsLoop(st, town_id, number_of_buildings, <<>>, <<0, 0>>, GridSize(number_of_buildings))

(* generate_town_name (lines 362-390).                                     *)
SeededTownName(st) ==
    LET prefix == Pick(st, LoadList("town-prefixes.txt"))
        root == Pick(prefix.st, LoadList("town-roots.txt"))
        suffix == Pick(root.st, LoadList("town-suffixes.txt"))
    IN  [st |-> suffix.st, value |-> prefix.value \o <<" ">> \o root.value \o suffix.value]

(* One iteration of the loop of generate_towns (lines 336-350).            *)
SeededTown(st) ==
    LET town_id == NewId(st)
        number_of_buildings == Sample(town_id.st, settings.min_buildings, settings.max_buildings)
        made == SeededBuildings(number_of_buildings.st, town_id.value, number_of_buildings.value)
        name == SeededTownName(made.st)
    IN  [st |-> name.st,
         value |-> [id |-> town_id.value, name |-> name.value, coords |-> <<0, 0>>,
                    number_of_buildings |-> number_of_buildings.value, buildings |-> made.value]]

(* The state the calls thread, from the variables and back.                *)
Threaded == [rng |-> rng, tracker |-> tracker_rng, ids |-> ids, status |-> "ok"]

Unthread(st) ==
    /\ rng' = st.rng
    /\ tracker_rng' = st.tracker
    /\ ids' = st.ids
    /\ IF st.status = "ok" THEN UNCHANGED <<pc, failure>>
       ELSE IF st.status = "spin" THEN pc' = "spin" /\ UNCHANGED failure
       ELSE Panic(EmptyRange)

(* lines 257-258: both sources are made from the seed of the run.          *)
SeedRun ==
    /\ pc = "seed"
    /\ rng' = SeedFromU64(seeds[run])
    /\ tracker_rng' = SeedFromU64(seeds[run])
    /\ ids' = {}
    /\ pc' = "town"
    /\ UNCHANGED <<settings, overflow_checks, failure, graphVars, id, issued, worldVars, nameVars,
                   dotVars, generator, seeds, run, world, results>>

(* lines 336-350: one iteration of the loop of generate_towns.             *)
SeededGenerateTown ==
    /\ pc = "town"
    /\ Len(towns) < settings.num_of_towns
    /\ \E made \in {SeededTown(Threaded)} :
          /\ Unthread(made.st)
          /\ towns' = IF made.st.status = "ok" THEN Append(towns, made.value) ELSE towns
    /\ UNCHANGED <<settings, overflow_checks, graphVars, id, issued, town, buildings, building, npcs,
                   rooms, rooms_left, nameVars, dotVars, generator, seeds, run, world, results>>

(* line 354: the loop is over, generate_graph is entered.                  *)
EnterGenerateGraph ==
    /\ pc = "town"
    /\ Len(towns) >= settings.num_of_towns
    /\ pc' = "nodes"
    /\ UNCHANGED <<settings, overflow_checks, failure, graphVars, idVars, worldVars, nameVars,
                   dotVars, runVars>>

(* lines 731-740 with the distances drawn from rng, one per pair in the    *)
(* order of tuple_combinations; the sort leaves equal keys as tie_order    *)
(* says.                                                                   *)
SeededDrawPairs ==
    /\ pc = "pairs"
    /\ run > 0
    /\ \E combos \in {TupleCombinations(town_nodes)} :
          IF combos # <<>> /\ GenRangePanics(settings.min_distance, settings.max_distance)
          THEN /\ Panic(EmptyRange)
               /\ UNCHANGED <<town_pairs, rng>>
          ELSE /\ town_pairs' = SortByDistance(
                     [k \in 1..Len(combos) |-> <<combos[k][1], combos[k][2],
                                               GenRangeOf([rng EXCEPT !.words = @ + k - 1],
                                                          settings.min_distance,
                                                          settings.max_distance)>>],
                     tie_order)
               /\ rng' = [rng EXCEPT !.words = @ + Len(combos)]
               /\ pc' = "spanning"
               /\ UNCHANGED failure
    /\ UNCHANGED <<settings, overflow_checks, town_nodes, tie_order, uf, edges, edges_added, idVars,
                   worldVars, nameVars, dotVars, generator, seeds, run, tracker_rng, world, results>>

(* flat_map over a list: the lists f gives, one after another.             *)
RECURSIVE Flatten(_)
Flatten(lists) ==
    IF lists = <<>> THEN <<>> ELSE Head(lists) \o Flatten(Tail(lists))


(* collect() into a HashMap keyed by id: a later entry of a key replaces   *)
(* an earlier one.                                                         *)
Collect(list) ==
    [k \in {list[n].id : n \in 1..Len(list)} |->
        list[CHOOSE n \in 1..Len(list) :
                /\ list[n].id = k
                /\ \A m \in (n + 1)..Len(list) : list[m].id # k]]

(* lines 262-317: the five maps of the world, from the list of towns.      *)
WorldOf(list) ==
    LET bs == Flatten([n \in 1..Len(list) |-> list[n].buildings])
        rs == Flatten([n \in 1..Len(bs) |-> bs[n].rooms])
    IN  [towns |-> Collect(list),
         buildings |-> Collect(bs),
         rooms |-> Collect(rs),
         npcs |-> Collect(Flatten([n \in 1..Len(rs) |-> rs[n].npcs])),
         containers |-> Collect(Flatten([n \in 1..Len(rs) |-> rs[n].containers]))]

CollectWorld ==
    /\ pc = "done"
    /\ run > 0
    /\ \E collected \in {WorldOf(towns)} : world' = collected
    /\ pc' = "return"
    /\ UNCHANGED <<settings, overflow_checks, failure, graphVars, idVars, worldVars, nameVars,
                   dotVars, generator, seeds, run, rng, tracker_rng, results>>

(* What a run gives back: the graph (its nodes are the towns in order,     *)
(* its edges in order), the list of towns and the world; a run that        *)
(* panics or never leaves get_new_id gives back only that.                 *)
Outcome ==
    IF pc = "return"
    THEN [status |-> "returned", graph |-> [nodes |-> towns, edges |-> edges],
          towns |-> towns, world |-> world]
    ELSE [status |-> pc, graph |-> GraphNew, towns |-> <<>>, world |-> WorldNew]

(* line 319: the run is over; the second run starts from nothing the       *)
(* first one left.                                                         *)
EndRun ==
    /\ pc \in {"return", "panic", "spin"}
    /\ run \in {1, 2}
    /\ Len(results) < run
    /\ results' = Append(results, Outcome)
    /\ IF run = 1
       THEN /\ run' = 2
            /\ pc' = "seed"
            /\ failure' = "none"
            /\ towns' = <<>>
            /\ town_nodes' = <<>>
            /\ town_pairs' = <<>>
            /\ uf' = UnionFindNew(0)
            /\ edges' = <<>>
            /\ edges_added' = 0
            /\ ids' = {}
            /\ world' = WorldNew
       ELSE /\ pc' = "end"
            /\ UNCHANGED <<run, failure, towns, town_nodes, town_pairs, uf, edges, edges_added,
                           ids, world>>
    /\ UNCHANGED <<settings, overflow_checks, tie_order, id, issued, town, buildings, building,
                   npcs, rooms, rooms_left, nameVars, dotVars, generator, seeds, rng, tracker_rng>>

(* The seeds of the two runs, the sources a seed may stand for (a step     *)
(* that shares no factor with the number of words, so that every word      *)
(* comes up), and the configurations of the runs.                          *)
Seeds == {1, 2}

SeedPairs == {<<1, 1>>, <<2, 2>>, <<1, 2>>}

Generators == {[step |-> s, offset |-> o] : s \in {1, 5}, o \in {<<0, 7>>, <<4, 9>>}}

RunIdRanges == {<<0, 31>>, <<0, 6>>, <<3, 3>>}

RunCountRanges == {<<0, 2>>, <<1, 3>>}

RunSettings ==
    {[DefaultSettings EXCEPT !.num_of_towns = n, !.num_of_connections = c,
         !.min_distance = 1, !.max_distance = 4, !.cost = 5,
         !.min_id = i[1], !.max_id = i[2],
         !.min_buildings = 1, !.max_buildings = 3,
         !.min_npcs = k[1], !.max_npcs = k[2], !.min_rooms = k[1], !.max_rooms = k[2],
         !.min_containers = k[1], !.max_containers = k[2]] :
       n \in {2, 3}, c \in {1, 4}, i \in RunIdRanges, k \in RunCountRanges}

InitRuns ==
    /\ settings \in RunSettings
    /\ overflow_checks \in BOOLEAN
    /\ generator \in Generators
    /\ seeds \in SeedPairs
    /\ tie_order \in {"stable", "reversed"}
    /\ word_files = [f \in FileNames |-> WordFile]
    /\ run = 1
    /\ pc = "seed"
    /\ failure = "none"
    /\ rng = SeedFromU64(0)
    /\ tracker_rng = SeedFromU64(0)
    /\ world = WorldNew
    /\ results = <<>>
    /\ town_nodes = <<>>
    /\ town_pairs = <<>>
    /\ uf = UnionFindNew(0)
    /\ edges = <<>>
    /\ edges_added = 0
    /\ building_name = <<>>
    /\ npc_name = <<>>
    /\ town_name = <<>>
    /\ IdTrackerNew
    /\ WorldIdle
    /\ DotIdle

NextRuns ==
    \/ SeedRun
    \/ SeededGenerateTown
    \/ EnterGenerateGraph
    \/ AddNodes
    \/ SeededDrawPairs
    \/ SpanningTree
    \/ ExtraEdges
    \/ CollectWorld
    \/ EndRun

SpecRuns == InitRuns /\ [][NextRuns]_vars

----------------------------------------------------------------------------
(* SpecDot: the .dot codec, save_graph and load_dot.  A u32 of the codec   *)
(* is <<high, low>> throughout.  Failures of the file system are left out. *)

(* Bounds of the codec's inputs.                                           *)
MaxDotEdges == 2
MaxLines == 2

Quote == "\""

(* JourneyInfo::from_label.                                                *)
JourneyInfo(distance, cost) == [distance |-> distance, cost |-> cost]

JourneyFromTokens(distance, cost) ==
    IF distance = None \/ cost = None THEN None
    ELSE Some(JourneyInfo(distance[1], cost[1]))

JourneyFromParts(parts) ==
    IF Len(parts) = 2
    THEN JourneyFromTokens(ParseU32(FirstWord(Trim(parts[1]))),
                           ParseU32(FirstWord(Trim(parts[2]))))
    ELSE None

FromLabel(label) == JourneyFromParts(Split(label, <<"/">>))

(* parse_edge_line.  LabelOpen is the pattern label=", 7 characters long.  *)
EdgeMark == <<"-", "-">>

LabelMark == <<"[", "l", "a", "b", "e", "l", "=">>

LabelOpen == <<"l", "a", "b", "e", "l", "=", "\"">>

(* The label: what stands between label=" and the next quote, trimmed.     *)
LabelFrom(source, target, rest, label_end) ==
    IF label_end = 0 THEN None
    ELSE Some(<<source, target, Trim(SubSeq(rest, 1, label_end - 1))>>)

LabelAt(source, target, target_and_label, label_open) ==
    IF label_open = 0 THEN None
    ELSE LabelFrom(source, target,
                   SubSeq(target_and_label, label_open + Len(LabelOpen), Len(target_and_label)),
                   Find(SubSeq(target_and_label, label_open + Len(LabelOpen),
                               Len(target_and_label)), <<Quote>>))

(* The target: what stands before the first "[", trimmed and unquoted.     *)
TargetAndLabel(source, target_and_label, target_end) ==
    IF target_end = 0 THEN None
    ELSE LabelAt(source,
                 TrimMatches(Trim(SubSeq(target_and_label, 1, target_end - 1)), Quote),
                 target_and_label, Find(target_and_label, LabelOpen))

EdgeParts(parts) ==
    IF Len(parts) = 2
    THEN TargetAndLabel(TrimMatches(Trim(parts[1]), Quote), Trim(parts[2]),
                        Find(Trim(parts[2]), <<"[">>))
    ELSE None

IsEdgeLine(line) ==
    StartsWith(line, <<Quote>>) /\ StrContains(line, EdgeMark) /\ StrContains(line, LabelMark)

ParseTrimmed(line) == IF IsEdgeLine(line) THEN EdgeParts(Split(line, EdgeMark)) ELSE None

ParseEdgeLine(line) == ParseTrimmed(Trim(line))

(* save_graph: a header, one line per edge in edge order, a footer.        *)
EdgeText(g, edge) ==
    <<" ", " ", " ", " ", "\"">> \o g.nodes[edge.source + 1] \o <<"\"", " ", "-", "-", " ", "\"">> \o g.nodes[edge.target + 1]
    \o <<"\"", " ", "[", "l", "a", "b", "e", "l", "=", "\"">> \o FormatU32(edge.distance) \o <<" ", "m", " ", "/", " ">> \o FormatU32(edge.cost)
    \o <<" ", "g", "o", "l", "d", "\"", ",", " ", "l", "e", "n", "=">> \o FormatU32(DivTen(edge.distance).quotient) \o <<"]", ";", "\n">>

RECURSIVE EdgesText(_, _)
EdgesText(g, k) ==
    IF k > Len(g.edges) THEN <<>> ELSE EdgeText(g, g.edges[k]) \o EdgesText(g, k + 1)

DotText(g) == <<"g", "r", "a", "p", "h", " ", "T", "o", "w", "n", "s", " ", "{", "\n">> \o EdgesText(g, 1) \o <<"}", "\n">>

SaveGraph ==
    /\ pc = "save"
    /\ dot_output' = DotText(graph)
    /\ pc' = "load"
    /\ UNCHANGED <<settings, overflow_checks, failure, graph, file_content, lines, raw_graph,
                   node_indices>>
    /\ UNCHANGED notDotVars

(* load_dot up to its loop: the file is read, graph and map are new.       *)
ReadDot ==
    /\ pc = "load"
    /\ file_content' = dot_output
    /\ lines' = Lines(dot_output)
    /\ raw_graph' = GraphNew
    /\ node_indices' = HashMapNew
    /\ pc' = "lines"
    /\ UNCHANGED <<settings, overflow_checks, failure, graph, dot_output>>
    /\ UNCHANGED notDotVars

(* node_indices.entry(name).or_insert_with(|| graph.add_node(..)) on the   *)
(* pair of graph and map.                                                  *)
EntryOrInsert(loaded, name) ==
    IF name \in DOMAIN loaded.indices THEN loaded
    ELSE [g |-> [loaded.g EXCEPT !.nodes = Append(@, name)],
          indices |-> [key \in DOMAIN loaded.indices \cup {name} |->
                          IF key = name THEN Len(loaded.g.nodes) ELSE loaded.indices[key]]]

AddEdge(loaded, source, target, journey_info) ==
    IF journey_info = None THEN loaded
    ELSE [loaded EXCEPT !.g.edges =
             Append(@, Edge(loaded.indices[source], loaded.indices[target],
                            journey_info[1].distance, journey_info[1].cost))]

(* One iteration of load_dot's loop on the line.                           *)
LoadParsed(loaded, parsed) ==
    IF parsed = None THEN loaded
    ELSE AddEdge(EntryOrInsert(EntryOrInsert(loaded, parsed[1][1]), parsed[1][2]),
                 parsed[1][1], parsed[1][2], FromLabel(parsed[1][3]))

LoadLine ==
    /\ pc = "lines"
    /\ lines # <<>>
    /\ \E loaded \in {LoadParsed([g |-> raw_graph, indices |-> node_indices],
                                 ParseEdgeLine(Head(lines)))} :
          /\ raw_graph' = loaded.g
          /\ node_indices' = loaded.indices
    /\ lines' = Tail(lines)
    /\ UNCHANGED <<settings, overflow_checks, pc, failure, graph, dot_output, file_content>>
    /\ UNCHANGED notDotVars

(* The loop is over: Ok(graph).                                            *)
LoadDone ==
    /\ pc = "lines"
    /\ lines = <<>>
    /\ pc' = "done"
    /\ UNCHANGED <<settings, overflow_checks, failure, dotVars>>
    /\ UNCHANGED notDotVars

(* The graphs exported and the files imported.                             *)
TownNames == {<<"A", "s", "h">>, <<"O", "l", "d", " ", "O", "a", "k">>,
              <<"E", "l", "m", "l", "a", "b", "e", "l", "=">>, <<"F", "i", "r", "[", "D", "a", "l", "e">>}

TownNameCounts == {1, 2}

Journeys == {JourneyInfo(<<0, 30>>, <<0, 150>>), JourneyInfo(<<0, 5>>, <<49152, 0>>)}

RECURSIVE SeqsUpTo(_, _)
SeqsUpTo(S, n) ==
    IF n = 0 THEN {<<>>}
    ELSE SeqsUpTo(S, n - 1) \cup
         {Append(q, x) : q \in {p \in SeqsUpTo(S, n - 1) : Len(p) = n - 1}, x \in S}

EdgesOver(n) ==
    {Edge(a, b, j.distance, j.cost) : a \in 0..(n - 1), b \in 0..(n - 1), j \in Journeys}

SampleLines == {
    <<" ", " ", " ", " ", "\"", "A", "s", "h", "\"", " ", "-", "-", " ", "\"", "O", "a", "k", "\"", " ", "[", "l", "a", "b", "e", "l", "=", "\"", "3", "0", " ", "m", " ", "/", " ", "1", "5", "0", " ", "g", "o", "l", "d", "\"", ",", " ", "l", "e", "n", "=", "3", "]", ";">>,
    <<"g", "r", "a", "p", "h", " ", "T", "o", "w", "n", "s", " ", "{">>,
    <<"}">>,
    <<"\"", "A", "s", "h", "\"", " ", "-", "-", " ", "\"", "O", "a", "k", "\"", " ", "-", "-", " ", "\"", "E", "l", "m", "\"", " ", "[", "l", "a", "b", "e", "l", "=", "\"", "1", " ", "m", " ", "/", " ", "2", " ", "g", "o", "l", "d", "\"", "]", ";">>,
    <<"\"", "A", "s", "h", "\"", " ", "-", "-", " ", "\"", "O", "a", "k", "\"", " ", "[", "l", "a", "b", "e", "l", "=", "3", "0", "]", ";">>,
    <<"\"", "A", "s", "h", "\"", " ", "-", "-", " ", "\"", "E", "l", "m", "\"", " ", "[", "l", "a", "b", "e", "l", "=", "\"", "3", "0", " ", "m", "\"", "]", ";">>,
    <<"\"", "F", "i", "r", "\"", " ", "-", "-", " ", "\"", "O", "a", "k", "\"", " ", "[", "l", "a", "b", "e", "l", "=", "\"", "x", " ", "m", " ", "/", " ", "2", " ", "g", "o", "l", "d", "\"", "]", ";">>,
    <<"\"", "A", "s", "h", "\"", " ", "-", "-", " ", "\"", "O", "a", "k", "\"">>,
    <<"A", "s", "h", " ", "-", "-", " ", "O", "a", "k", " ", "[", "l", "a", "b", "e", "l", "=", "\"", "1", " ", "m", " ", "/", " ", "2", " ", "g", "o", "l", "d", "\"", "]", ";">>,
    <<"\"", "O", "a", "k", "\"", " ", "-", "-", " ", "\"", "A", "s", "h", "\"", " ", "[", "l", "a", "b", "e", "l", "=", "\"", "7", "/", "9", "\"", "]">>}

RECURSIVE JoinLines(_)
JoinLines(q) == IF q = <<>> THEN <<>> ELSE Head(q) \o <<"\n">> \o JoinLines(Tail(q))

InitDot ==
    /\ \/ /\ \E n \in TownNameCounts :
                \E nodes \in DistinctSeqs(TownNames, n), e \in SeqsUpTo(EdgesOver(n), MaxDotEdges) :
                   graph = [nodes |-> nodes, edges |-> e]
          /\ dot_output = <<>>
          /\ pc = "save"
       \/ /\ \E q \in SeqsUpTo(SampleLines, MaxLines) : dot_output = JoinLines(q)
          /\ graph = GraphNew
          /\ pc = "load"
    /\ settings = DefaultSettings
    /\ overflow_checks = FALSE  \* no arithmetic of these routines overflows
    /\ failure = "none"
    /\ file_content = <<>>
    /\ lines = <<>>
    /\ raw_graph = GraphNew
    /\ node_indices = HashMapNew
    /\ GraphIdle
    /\ IdTrackerNew
    /\ WorldIdle
    /\ NamesIdle
    /\ RunIdle

NextDot == SaveGraph \/ ReadDot \/ LoadLine \/ LoadDone

SpecDot == InitDot /\ [][NextDot]_vars

----------------------------------------------------------------------------
(* SpecImport: a file is read by load_dot, the towns it names are          *)
(* populated by generate_world_from_imported_raw_graph and the graph of    *)
(* the populated towns is built by generate_graph_from_imported_towns      *)
(* (lines 847-851).                                                        *)

(* lines 1013-1028: one iteration of the loop over the names of the raw    *)
(* graph.                                                                  *)
ImportedTown(st, townname) ==
    LET town_id == NewId(st)
        number_of_buildings == Sample(town_id.st, settings.min_buildings, settings.max_buildings)
        made == SeededBuildings(number_of_buildings.st, town_id.value, number_of_buildings.value)
    IN  [st |-> made.st,
         value |-> [id |-> town_id.value, name |-> townname, coords |-> <<0, 0>>,
                    number_of_buildings |-> number_of_buildings.value, buildings |-> made.value]]

(* lines 935-936: the import is seeded like a generation.                  *)
ImportSeed ==
    /\ pc = "done"
    /\ rng' = SeedFromU64(seeds[run])
    /\ tracker_rng' = SeedFromU64(seeds[run])
    /\ ids' = {}
    /\ towns' = <<>>
    /\ pc' = "import"
    /\ UNCHANGED <<settings, overflow_checks, failure, graphVars, id, issued, town, buildings,
                   building, npcs, rooms, rooms_left, nameVars, dotVars, generator, seeds, run,
                   world, results>>

ImportTown ==
    /\ pc = "import"
    /\ Len(towns) < Len(raw_graph.nodes)
    /\ \E made \in {ImportedTown(Threaded, raw_graph.nodes[Len(towns) + 1])} :
          /\ Unthread(made.st)
          /\ towns' = IF made.st.status = "ok" THEN Append(towns, made.value) ELSE towns
    /\ UNCHANGED <<settings, overflow_checks, graphVars, id, issued, town, buildings, building, npcs,
                   rooms, rooms_left, nameVars, dotVars, generator, seeds, run, world, results>>

(* lines 939-997: the maps of the world of the imported towns.             *)
ImportWorld ==
    /\ pc = "import"
    /\ Len(towns) >= Len(raw_graph.nodes)
    /\ \E collected \in {WorldOf(towns)} : world' = collected
    /\ pc' = "mirror"
    /\ UNCHANGED <<settings, overflow_checks, failure, graphVars, idVars, worldVars, nameVars,
                   dotVars, generator, seeds, run, rng, tracker_rng, results>>

(* lines 1042-1047: town_map gives the node of a name; a later town of     *)
(* the same name replaces an earlier one.                                  *)
TownMap(list) ==
    [name \in {list[n].name : n \in 1..Len(list)} |->
        (CHOOSE n \in 1..Len(list) :
            /\ list[n].name = name
            /\ \A m \in (n + 1)..Len(list) : list[m].name # name) - 1]

(* lines 1049-1062: the edges of the raw graph between the towns of the    *)
(* same names, with the same weight, in the order of the raw edges.        *)
RECURSIVE MirrorEdges(_, _, _)
MirrorEdges(raw_edges, raw_nodes, town_map) ==
    IF raw_edges = <<>> THEN <<>>
    ELSE LET edge == Head(raw_edges)
             raw_source == raw_nodes[edge.source + 1]
             raw_target == raw_nodes[edge.target + 1]
             rest == MirrorEdges(Tail(raw_edges), raw_nodes, town_map)
         IN  IF raw_source \in DOMAIN town_map /\ raw_target \in DOMAIN town_map
             THEN <<Edge(town_map[raw_source], town_map[raw_target], edge.distance, edge.cost)>>
                      \o rest
             ELSE rest

(* generate_graph_from_imported_towns (lines 1036-1065); the import is     *)
(* over and its result kept.                                               *)
ImportGraph ==
    /\ pc = "mirror"
    /\ results' = Append(results,
                     [status |-> "returned",
                      graph |-> [nodes |-> towns,
                                 edges |-> MirrorEdges(raw_graph.edges, raw_graph.nodes,
                                                       TownMap(towns))],
                      towns |-> towns, world |-> world])
    /\ pc' = "end"
    /\ UNCHANGED <<settings, overflow_checks, failure, graphVars, idVars, worldVars, nameVars,
                   dotVars, generator, seeds, run, rng, tracker_rng, world>>

(* The lines of the files read.                                            *)
ImportLines == {
    <<"\"", "A", "s", "h", "\"", " ", "-", "-", " ", "\"", "O", "a", "k", "\"", " ", "[", "l", "a", "b", "e", "l", "=", "\"", "3", "0", " ", "m", " ", "/", " ", "1", "5", "0", " ", "g", "o", "l", "d", "\"", "]", ";">>,
    <<" ", " ", " ", " ", "\"", "O", "a", "k", "\"", " ", "-", "-", " ", "\"", "E", "l", "m", "\"", " ", "[", "l", "a", "b", "e", "l", "=", "\"", "2", " ", "m", " ", "/", " ", "4", " ", "g", "o", "l", "d", "\"", "]", ";">>,
    <<"\"", "E", "l", "m", "\"", " ", "-", "-", " ", "\"", "A", "s", "h", "\"", " ", "[", "l", "a", "b", "e", "l", "=", "\"", "7", " ", "m", " ", "/", " ", "9", " ", "g", "o", "l", "d", "\"", "]", ";">>,
    <<"\"", "A", "s", "h", "\"", " ", "-", "-", " ", "\"", "A", "s", "h", "\"", " ", "[", "l", "a", "b", "e", "l", "=", "\"", "1", " ", "m", " ", "/", " ", "1", " ", "g", "o", "l", "d", "\"", "]", ";">>,
    <<"\"", "F", "i", "r", "\"", " ", "-", "-", " ", "\"", "O", "a", "k", "\"", " ", "[", "l", "a", "b", "e", "l", "=", "\"", "x", " ", "m", " ", "/", " ", "2", " ", "g", "o", "l", "d", "\"", "]", ";">>,
    <<"\"", "A", "s", "h", "\"", " ", "-", "-", " ", "\"", "E", "l", "m", "\"", " ", "[", "l", "a", "b", "e", "l", "=", "\"", "3", "0", " ", "m", "\"", "]", ";">>,
    <<"}">>}

ImportIdRanges == {<<0, 31>>, <<0, 4>>}

InitImport ==
    /\ \E q \in SeqsUpTo(ImportLines, MaxLines) : dot_output = JoinLines(q)
    /\ \E i \in ImportIdRanges :
          settings = [DefaultSettings EXCEPT !.min_id = i[1], !.max_id = i[2],
                         !.min_buildings = 1, !.max_buildings = 3,
                         !.min_npcs = 0, !.max_npcs = 2, !.min_rooms = 0, !.max_rooms = 3,
                         !.min_containers = 0, !.max_containers = 2]
    /\ overflow_checks = FALSE  \* no arithmetic of these routines overflows
    /\ generator = [step |-> 5, offset |-> <<0, 7>>]
    /\ seeds \in {<<1>>, <<2>>}
    /\ run = 1
    /\ word_files = [f \in FileNames |-> WordFile]
    /\ pc = "load"
    /\ failure = "none"
    /\ graph = GraphNew
    /\ file_content = <<>>
    /\ lines = <<>>
    /\ raw_graph = GraphNew
    /\ node_indices = HashMapNew
    /\ rng = SeedFromU64(0)
    /\ tracker_rng = SeedFromU64(0)
    /\ world = WorldNew
    /\ results = <<>>
    /\ building_name = <<>>
    /\ npc_name = <<>>
    /\ town_name = <<>>
    /\ GraphIdle
    /\ IdTrackerNew
    /\ WorldIdle

NextImport ==
    \/ ReadDot
    \/ LoadLine
    \/ LoadDone
    \/ ImportSeed
    \/ ImportTown
    \/ ImportWorld
    \/ ImportGraph

SpecImport == InitImport /\ [][NextImport]_vars

----------------------------------------------------------------------------
(* Properties of generate_graph.                                           *)

TownCount == settings.num_of_towns

SpanningCount == TownCount - 1

Returned == pc = "done"

(* The towns reachable from the towns in S along the edges es.             *)
RECURSIVE ReachableFrom(_, _)
ReachableFrom(S, es) ==
    LET T == S \cup {e.target : e \in {x \in Range(es) : x.source \in S}}
                \cup {e.source : e \in {x \in Range(es) : x.target \in S}}
    IN  IF T = S THEN S ELSE ReachableFrom(T, es)

OneComponent == \A t \in Range(town_nodes) : ReachableFrom({t}, edges) = Range(town_nodes)

(* C1: with at least one town, a non-empty distance range and a budget of  *)
(* at least town_count - 1 connections, the returned graph has exactly one *)
(* connected component, which contains every town.                         *)
C1_Connected ==
    (Returned /\ TownCount >= 1 /\ settings.min_distance < settings.max_distance
        /\ settings.num_of_connections >= SpanningCount)
    => (Len(town_nodes) = TownCount /\ OneComponent)

C1_Witness ==
    /\ Returned
    /\ TownCount = 4
    /\ settings.num_of_connections = 3
    /\ OneComponent

(* C2: with a budget of at most town_count - 1 connections generate_graph  *)
(* does not fail on the budget and returns exactly the town_count - 1      *)
(* spanning edges.                                                         *)
C2_OnlySpanningEdges ==
    settings.num_of_connections <= SpanningCount
    => (failure # SubOverflow /\ (Returned => Len(edges) = SpanningCount))

(* C3: with a budget of at least town_count - 1 connections the returned   *)
(* graph has one vertex per town and min(num_of_connections,               *)
(* town_count*(town_count-1)/2) edges.                                     *)
C3_EdgeCount ==
    (Returned /\ settings.num_of_connections >= SpanningCount)
    => (/\ Len(town_nodes) = TownCount
        /\ Len(edges) = Min(settings.num_of_connections, (TownCount * (TownCount - 1)) \div 2))

C3_Witness ==
    /\ Returned
    /\ \/ TownCount = 1 /\ settings.num_of_connections = MaxConnections /\ edges = <<>>
       \/ TownCount = 4 /\ settings.num_of_connections = 3 /\ Len(edges) = 3
       \/ TownCount = 3 /\ settings.num_of_connections > 3 /\ Len(edges) = 3

(* cost = distance * multiplier over the integers, stated by division of   *)
(* the stored cost <<high, low>> by the distance.                          *)
CostIsProduct(cost, distance, multiplier) ==
    IF distance = 0 THEN cost = <<0, 0>>
    ELSE LET q1 == cost[1] \div distance
             r1 == cost[1] % distance
             low == r1 * 65536 + cost[2]
         IN  /\ low % distance = 0
             /\ q1 = Hi16(multiplier)
             /\ low \div distance = Lo16(multiplier)

(* C4: every edge of the graph has cost = distance * cost multiplier       *)
(* exactly and a distance in [min_distance, max_distance).                 *)
C4_EdgeCostLaw ==
    \A k \in 1..Len(edges) :
        /\ CostIsProduct(edges[k].cost, edges[k].distance, settings.cost)
        /\ edges[k].distance \in GenRange(settings.min_distance, settings.max_distance)

----------------------------------------------------------------------------
(* Properties of IdTracker::get_new_id.                                    *)

(* C5: every identifier get_new_id has returned lies in [min_id, max_id),  *)
(* none has been returned twice, and the tracker holds exactly the         *)
(* returned identifiers.                                                   *)
C5_IdsUnique ==
    /\ \A k \in 1..Len(issued) : settings.min_id <= issued[k] /\ issued[k] < settings.max_id
    /\ \A k, l \in 1..Len(issued) : issued[k] = issued[l] => k = l
    /\ ids = Range(issued)

C5_Witness ==
    /\ pc = "idle"
    /\ Len(issued) >= 3
    /\ Len(issued) = settings.max_id - settings.min_id
    /\ issued[1] > issued[2]

----------------------------------------------------------------------------
(* Properties of the content generator.                                    *)

(* The finished buildings: those of the finished towns and of the running  *)
(* town.                                                                   *)
FinishedBuildings == UNION {Range(t.buildings) : t \in Range(towns)} \cup Range(buildings)

RECURSIVE SumLen(_, _)
SumLen(rs, field) ==
    IF rs = <<>> THEN 0
    ELSE Len(IF field = "npcs" THEN rs[1].npcs ELSE rs[1].containers) + SumLen(Tail(rs), field)

(* The number of inhabitants the rooms of building b hold.                 *)
Inhabitants(b) == SumLen(b.rooms, "npcs")

(* C6: the rooms of every generated building hold 1 inhabitant for a Shop, *)
(* 2 for a Residence and a number in [min_npcs, max_npcs) for a Tavern or  *)
(* Temple.                                                                 *)
C6_CategoryRule ==
    \A b \in FinishedBuildings :
        /\ b.building_type = "Shop" => Inhabitants(b) = 1
        /\ b.building_type = "Residence" => Inhabitants(b) = 2
        /\ b.building_type \in {"Tavern", "Temple"}
              => Inhabitants(b) \in GenRange(settings.min_npcs, settings.max_npcs)

(* C7: with min_containers = max_containers (and the other ranges not      *)
(* empty) generation does not fail and every room has zero containers.     *)
C7_EmptyContainerRange ==
    (/\ settings.min_containers = settings.max_containers
     /\ settings.min_id < settings.max_id
     /\ settings.min_buildings < settings.max_buildings
     /\ settings.min_npcs < settings.max_npcs
     /\ settings.min_rooms < settings.max_rooms)
    => (/\ failure = "none"
        /\ \A b \in FinishedBuildings : SumLen(b.rooms, "containers") = 0)

----------------------------------------------------------------------------
(* Properties of name synthesis.                                           *)

(* The words a list stands for under the degradation policy: its lines,    *)
(* or the sentinel when the file is absent or has no line.                 *)
WordsOrSentinel(filename) ==
    IF word_files[filename].exists /\ word_files[filename].lines # <<>>
    THEN Range(word_files[filename].lines)
    ELSE {NoData}

(* C8: whatever word file is absent or blank, name synthesis does not      *)
(* fail, and the town name is made of a prefix, a root and a suffix, each  *)
(* a word of its list or the sentinel "NO DATA".                           *)
C8_SentinelForEmptyList ==
    /\ failure = "none"
    /\ pc = "done" =>
          \E prefix \in WordsOrSentinel("town-prefixes.txt"),
             root \in WordsOrSentinel("town-roots.txt"),
             suffix \in WordsOrSentinel("town-suffixes.txt") :
                town_name = prefix \o <<" ">> \o root \o suffix

(* The edges of g by town name, in edge order.                             *)
NamedEdges(g) ==
    [k \in 1..Len(g.edges) |->
        Edge(g.nodes[g.edges[k].source + 1], g.nodes[g.edges[k].target + 1],
             g.edges[k].distance, g.edges[k].cost)]

(* A town name the round trip is promised for: non-empty, no quote, no     *)
(* "--", no "[", no whitespace at either end.                              *)
RoundTripName(name) ==
    /\ name # <<>>
    /\ Quote \notin Range(name)
    /\ ~StrContains(name, EdgeMark)
    /\ "[" \notin Range(name)
    /\ Trim(name) = name

Exported == pc = "done" /\ graph.nodes # <<>>

(* C9: once a graph whose town names are all non-empty, free of quotes,    *)
(* of "--" and of "[", and without whitespace at either end has been       *)
(* exported by save_graph and the text parsed by load_dot, the raw graph   *)
(* has, in the same order, one edge per exported edge with the same source *)
(* name, target name, distance and cost.                                   *)
C9_RoundTrip ==
    (Exported /\ \A name \in Range(graph.nodes) : RoundTripName(name))
        => NamedEdges(raw_graph) = NamedEdges(graph)

(* A line that fails a parsing rule: parse_edge_line rejects it, or the    *)
(* label it extracts is rejected by JourneyInfo::from_label.               *)
FailsParsing(line) ==
    \/ ParseEdgeLine(line) = None
    \/ FromLabel(ParseEdgeLine(line)[1][3]) = None

(* C10: a step of load_dot's loop on a line that fails a parsing rule      *)
(* leaves the raw graph as it was, vertices and edges, and raises nothing. *)
C10_MalformedLineSkipped ==
    [][(pc = "lines" /\ lines # <<>> /\ FailsParsing(Head(lines)))
          => (raw_graph' = raw_graph /\ pc' = "lines")]_vars

(* The pairs the union-find scan rejected, in sorted order: those no edge  *)
(* of the first phase joins.                                               *)
JoinedByFirstPhase(pair) ==
    \E k \in 1..edges_added : edges[k].source = pair[1] /\ edges[k].target = pair[2]

RejectedPairs == SelectSeq(town_pairs, LAMBDA pair : ~JoinedByFirstPhase(pair))

SecondPhaseEdges == SubSeq(edges, edges_added + 1, Len(edges))

(* C13: with a budget above town_count - 1 the edges of the second phase   *)
(* are the rejected pairs in ascending distance order, as many as the      *)
(* budget left by the spanning edges allows: no spanning pair is added a   *)
(* second time and no rejected pair is passed over.                        *)
C13_ExtraEdgesAreRejectedPairs ==
    (Returned /\ TownCount >= 1 /\ settings.num_of_connections > SpanningCount)
    => SecondPhaseEdges =
          [k \in 1..Min(settings.num_of_connections - edges_added, Len(RejectedPairs)) |->
              PairEdge(RejectedPairs[k])]

(* The spanning trees of the complete graph over the towns 0..n-1, each a  *)
(* set of n-1 unordered pairs <<a, b>>, a < b, that joins every town.      *)
PairsOver(n) == {p \in (0..(n - 1)) \X (0..(n - 1)) : p[1] < p[2]}

RECURSIVE JoinedTo(_, _)
JoinedTo(S, pairs) ==
    LET T == S \cup {p[2] : p \in {q \in pairs : q[1] \in S}}
                \cup {p[1] : p \in {q \in pairs : q[2] \in S}}
    IN  IF T = S THEN S ELSE JoinedTo(T, pairs)

SpanningTreesOver(n) ==
    {tree \in SUBSET PairsOver(n) : Cardinality(tree) = n - 1 /\ JoinedTo({0}, tree) = 0..(n - 1)}

(* Each tree as a sequence of its pairs, in some order.                     *)
RECURSIVE Listed(_)
Listed(pairs) ==
    IF pairs = {} THEN <<>>
    ELSE LET p == CHOOSE q \in pairs : TRUE IN <<p>> \o Listed(pairs \ {p})

SpanningTrees == [n \in 1..(MaxTowns + 1) |-> {Listed(tree) : tree \in SpanningTreesOver(n)}]

(* The drawn distance of every pair of towns.                              *)
DrawnDistance ==
    [p \in {<<q[1], q[2]>> : q \in Range(town_pairs)} |->
        (CHOOSE q \in Range(town_pairs) : q[1] = p[1] /\ q[2] = p[2])[3]]

RECURSIVE TotalDistance(_, _, _)
TotalDistance(pairs, distance, k) ==
    IF k > Len(pairs) THEN 0 ELSE distance[pairs[k]] + TotalDistance(pairs, distance, k + 1)

(* The first loop is over, the second has not begun.                       *)
FirstPhaseDone == pc = "extra"

FirstPhasePairs == [k \in 1..edges_added |-> <<edges[k].source, edges[k].target>>]

(* C14: with at least one town, once the first phase of generate_graph is  *)
(* over it has added exactly town_count - 1 edges, they join every town,   *)
(* and no spanning tree of the complete graph over the towns has a smaller *)
(* total of drawn distances.                                               *)
C14_MinimumSpanningTree ==
    (FirstPhaseDone /\ TownCount >= 1)
    => /\ edges_added = SpanningCount
       /\ Cardinality(Range(FirstPhasePairs)) = SpanningCount
       /\ JoinedTo({0}, Range(FirstPhasePairs)) = Range(town_nodes)
       /\ \E distance \in {DrawnDistance} :
             \E total \in {TotalDistance(FirstPhasePairs, distance, 1)} :
                \A tree \in SpanningTrees[TownCount] : total <= TotalDistance(tree, distance, 1)

(* Four towns whose cheapest three pairs close a triangle: the tree has to *)
(* take a dearer pair.                                                     *)
C14_Witness ==
    /\ pc = "extra"
    /\ TownCount = 4
    /\ edges_added = 3
    /\ \E k \in 1..edges_added : edges[k].distance > town_pairs[3][3]
    /\ ~JoinedByFirstPhase(town_pairs[3])

(* A call of get_new_id is running, and the ids of [min_id, max_id) that   *)
(* are not issued.                                                         *)
InGetNewId == pc = "loop"

UnissuedIds == {v \in GenRange(settings.min_id, settings.max_id) : v \notin ids}

(* The call returns, fails, or goes on redrawing.                          *)
NeverReturnsNorFails == [][UnissuedIds = {} => pc' \notin {"panic"} /\ issued' = issued]_vars

ReturnsIfUnissued == (InGetNewId /\ UnissuedIds # {}) ~> (pc = "idle")

(* C15 as stated: a running call returns in the end whenever an id of      *)
(* [min_id, max_id) is not issued; once every id of the range is issued no *)
(* call returns and none fails, the call redraws forever.                  *)
C15_Original == ReturnsIfUnissued /\ NeverReturnsNorFails

(* C15, for a non-empty range min_id < max_id: under fair draws a running  *)
(* call returns in the end whenever an id of the range is not issued; once *)
(* all max_id - min_id ids are issued no call returns and none fails, the  *)
(* call redraws forever.  (On an empty range the first draw panics.)       *)
C15_ReturnsIffUnissued ==
    /\ ReturnsIfUnissued
    /\ [][(settings.min_id < settings.max_id /\ UnissuedIds = {})
             => (pc' \notin {"panic"} /\ issued' = issued)]_vars
    /\ [](settings.min_id < settings.max_id /\ InGetNewId /\ UnissuedIds = {} => [](InGetNewId))

(* Every id of a range of two or more is issued and a further call is      *)
(* redrawing.                                                              *)
C15_Witness ==
    /\ InGetNewId
    /\ Len(issued) = settings.max_id - settings.min_id
    /\ Len(issued) >= 2

(* The places <<room, slot>> of the rooms rs that hold the inhabitant of    *)
(* id npc_id.                                                              *)
PlacesOf(rs, npc_id) ==
    {place \in (1..Len(rs)) \X (1..Len(npcs)) :
        place[2] <= Len(rs[place[1]].npcs) /\ rs[place[1]].npcs[place[2]].id = npc_id}

(* C16: generate_rooms leaves every inhabitant generated for the building  *)
(* in exactly one room of the building, none lost or duplicated, with      *)
(* room_id set to the id of that room, whatever the number of rooms drawn, *)
(* zero included.                                                          *)
C16_EveryInhabitantPlaced ==
    [][(pc = "room" /\ pc' = "buildings")
          => (/\ \A k \in 1..Len(npcs) : Cardinality(PlacesOf(rooms', npcs[k].id)) = 1
              /\ SumLen(rooms', "npcs") = Len(npcs)
              /\ \A r \in 1..Len(rooms') : \A j \in 1..Len(rooms'[r].npcs) :
                    rooms'[r].npcs[j].room_id = Some(rooms'[r].id))]_vars

(* The back-references of the room and of what it holds agree with the     *)
(* building b that owns the room.                                          *)
RoomRefersTo(room, b) ==
    /\ room.town_id = b.town_id
    /\ room.building_id = b.id
    /\ \A k \in 1..Len(room.containers) :
          /\ room.containers[k].town_id = room.town_id
          /\ room.containers[k].building_id = room.building_id
          /\ room.containers[k].room_id = room.id
    /\ \A k \in 1..Len(room.npcs) :
          /\ room.npcs[k].town_id = room.town_id
          /\ room.npcs[k].building_id = room.building_id
          /\ room.npcs[k].room_id = Some(room.id)

BuildingRefersTo(b, town_id) ==
    /\ b.town_id = town_id
    /\ \A r \in 1..Len(b.rooms) : RoomRefersTo(b.rooms[r], b)

(* C17: each building's town_id is the id of the town that owns it, each   *)
(* room's town_id and building_id are those of its building, and each      *)
(* container's and inhabitant's town_id, building_id and room_id are those *)
(* of the room that holds it; for the finished towns and for the buildings *)
(* finished so far of the town under construction.                         *)
C17_BackReferences ==
    /\ \A t \in 1..Len(towns) : \A b \in 1..Len(towns[t].buildings) :
          BuildingRefersTo(towns[t].buildings[b], towns[t].id)
    /\ \A b \in 1..Len(buildings) : BuildingRefersTo(buildings[b], town.id)

(* A town is finished whose building has a room with an inhabitant and a   *)
(* container.                                                              *)
C17_Witness ==
    /\ pc = "done"
    /\ \E t \in Range(towns) : \E b \in Range(t.buildings) : \E room \in Range(b.rooms) :
          room.npcs # <<>> /\ room.containers # <<>>

(* The shape of a graph generate_world returns: no edge from a town to     *)
(* itself, and every town joined to the first by the spanning edges.       *)
GeneratedShape(g) ==
    /\ g.nodes # <<>>
    /\ \A k \in 1..Len(g.edges) : g.edges[k].source # g.edges[k].target
    /\ ReachableFrom({0}, g.edges) = 0..(Len(g.nodes) - 1)

(* C12: once a graph of the shape generate_world returns has been exported *)
(* by save_graph and the text parsed by load_dot, the town names of the    *)
(* raw graph are the town names of the exported graph, a town without an   *)
(* edge included.                                                          *)
C12_NameSetRoundTrip ==
    (Exported /\ GeneratedShape(graph)) => Range(raw_graph.nodes) = Range(graph.nodes)

(* C11: two runs of generate_world with the same seed, configuration and   *)
(* word lists give the same outcome: the same towns in the same order      *)
(* with the same ids and names, the same edges in the same order with the  *)
(* same distance and cost, and the same five maps of the world.            *)
BothRunsOver == Len(results) = 2

C11_SeedMatters ==
    /\ BothRunsOver
    /\ seeds[1] # seeds[2]
    /\ results[1].status = "returned"
    /\ results[2].status = "returned"
    /\ results[1] # results[2]

----------------------------------------------------------------------------
(* Properties of the import.                                               *)

(* The lines load_dot has gone through so far.                             *)
Processed == SubSeq(Lines(file_content), 1, Len(Lines(file_content)) - Len(lines))

(* The names the accepted lines mention, each once, in the order of first  *)
(* mention, the source of a line before its target.                        *)
Mention(seen, name) == IF name \in Range(seen) THEN seen ELSE Append(seen, name)

RECURSIVE FirstMentions(_, _)
FirstMentions(ls, seen) ==
    IF ls = <<>> THEN seen
    ELSE IF FailsParsing(Head(ls)) THEN FirstMentions(Tail(ls), seen)
    ELSE FirstMentions(Tail(ls),
                       Mention(Mention(seen, ParseEdgeLine(Head(ls))[1][1]),
                               ParseEdgeLine(Head(ls))[1][2]))

Imported == pc = "end" /\ Len(results) = 1

NamesOf(list) == [n \in 1..Len(list) |-> list[n].name]

MirrorsRawEdges(g) ==
    /\ Len(g.edges) = Len(raw_graph.edges)
    /\ \A k \in 1..Len(g.edges) :
          /\ g.nodes[g.edges[k].source + 1].name = raw_graph.nodes[raw_graph.edges[k].source + 1]
          /\ g.nodes[g.edges[k].target + 1].name = raw_graph.nodes[raw_graph.edges[k].target + 1]
          /\ g.edges[k].distance = raw_graph.edges[k].distance
          /\ g.edges[k].cost = raw_graph.edges[k].cost

(* C18: whatever lines load_dot has gone through, the vertices of the raw  *)
(* graph are the distinct town names the accepted edge lines mention, in   *)
(* the order of first mention (source before target), no name twice; the   *)
(* populated import has one town per such name in the same order, and its  *)
(* edges are the raw edges: same endpoints by name, same distance and      *)
(* cost, same order.                                                       *)
C18_VerticesAreAcceptedMentions ==
    /\ raw_graph.nodes = FirstMentions(Processed, <<>>)
    /\ Imported =>
          /\ NamesOf(results[1].graph.nodes) = FirstMentions(Processed, <<>>)
          /\ results[1].towns = results[1].graph.nodes
          /\ MirrorsRawEdges(results[1].graph)

====
